---- MODULE Spec2Model ----
(***************************************************************************)
(* Semantic cache and retrieval engine of the chewie_ai backend:           *)
(* CacheService (PostgreSQL semantic cache + Redis exact cache), the POST   *)
(* /ask request handler that drives it, RAGService (document retrieval and *)
(* context building) and the scraper's chunk_content.                      *)
(*                                                                         *)
(* Text is a sequence of one-character strings, so that lower() and the    *)
(* substring tests of the code are computed, not assumed.  Timestamps are  *)
(* whole seconds.  A cosine similarity is kept exact as the fraction       *)
(* <<signed square of the dot product, product of the squared norms>>.     *)
(***************************************************************************)
EXTENDS Integers, Sequences, FiniteSets, TLC

VARIABLES
  now,     \* datetime.utcnow(), in seconds
  nops,    \* number of state-changing operations so far
  cache,   \* the rows of table query_cache
  nextId,  \* the next fresh row id (uuid4)
  redis,   \* the Redis store: key -> value with its expiry
  ret,     \* what the latest CacheService call returned to its caller
  reqs,    \* the POST /ask requests received so far
  docs,    \* the rows of table documents
  rag,     \* the latest RAGService call: its arguments and its outcome
  chunk,   \* a run of GitBookScraper.chunk_content: arguments and locals
  cls      \* the latest QueryClassifier.classify call and its result

vars == <<now, nops, cache, nextId, redis, ret, reqs, docs, rag, chunk, cls>>

-----------------------------------------------------------------------------
(* Bound of the model: the number of state-changing operations in a run    *)
(* (inserts, hits, deletes, clock steps, request steps)                    *)

MaxOps == 4

-----------------------------------------------------------------------------
(* Program constants *)

CacheTtlSeconds == 30
RedisTtlHours == 24
SecondsPerHour == 3600

(* Python's None for an optional string and for an optional integer *)
None == "None"
NoneInt == -1

(* truthiness of an Optional[int]: None and 0 are both falsy *)
Truthy(x) == x # NoneInt /\ x # 0

(* truthiness of an Optional[str]: None and "" are both falsy *)
TruthyStr(s) == s # None /\ s # ""

-----------------------------------------------------------------------------
(* Text *)

LowerChar(c) ==
  CASE c = "A" -> "a" []
       c = "B" -> "b" []
       c = "C" -> "c" []
       c = "D" -> "d" []
       c = "E" -> "e" []
       c = "F" -> "f" []
       c = "G" -> "g" []
       c = "H" -> "h" []
       c = "I" -> "i" []
       c = "J" -> "j" []
       c = "K" -> "k" []
       c = "L" -> "l" []
       c = "M" -> "m" []
       c = "N" -> "n" []
       c = "O" -> "o" []
       c = "P" -> "p" []
       c = "Q" -> "q" []
       c = "R" -> "r" []
       c = "S" -> "s" []
       c = "T" -> "t" []
       c = "U" -> "u" []
       c = "V" -> "v" []
       c = "W" -> "w" []
       c = "X" -> "x" []
       c = "Y" -> "y" []
       c = "Z" -> "z" []
       OTHER -> c

lower(s) == [i \in 1..Len(s) |-> LowerChar(s[i])]

(* Python's  sub in s  for strings *)
Contains(s, sub) ==
  \E i \in 0..(Len(s) - Len(sub)) : SubSeq(s, i + 1, i + Len(sub)) = sub

QApy == <<"a","p","y">>
QApyCap == <<"A","p","y">>
QApr == <<"a","p","r">>
QRisk == <<"r","i","s","k">>
QAaveApy == <<"A","a","v","e"," ","a","p","y">>
QApyPadded == <<" ","a","p","y"," ">>

Kamino == <<"k","a","m","i","n","o">>
Aave == <<"a","a","v","e">>

(* the texts and scopes of the model *)
AllTexts == {QApy, QApyCap, QApr, QRisk, QAaveApy, QApyPadded}
Queries == {QApy, QApr}
Dapps == {Kamino, Aave}

LowerOf == [t \in AllTexts |-> lower(t)]

-----------------------------------------------------------------------------
(* EmbeddingService.encode: a deterministic map from text to a vector.     *)
(* The configured model is uncased, so the vector depends on the text      *)
(* through its lowercase form, and its tokenizer drops the whitespace      *)
(* around the text.                                                        *)

EmbeddingOf ==
  [text \in AllTexts |->
     LET t == lower(text) IN
     CASE t = QApy -> <<10, 0>>
       [] t = QApyPadded -> <<10, 0>>
       [] t = QApr -> <<10, 2>>
       [] t = lower(QAaveApy) -> <<10, 4>>
       [] t = QRisk -> <<0, 10>>
       [] OTHER -> <<1, 1>>]

encode(text) == EmbeddingOf[text]

RECURSIVE DotFrom(_, _, _)
DotFrom(a, b, i) ==
  IF i > Len(a) THEN 0 ELSE a[i] * b[i] + DotFrom(a, b, i + 1)

Dot(a, b) == DotFrom(a, b, 1)

Abs(x) == IF x < 0 THEN -x ELSE x
Min2(a, b) == IF a < b THEN a ELSE b
Max2(a, b) == IF a > b THEN a ELSE b

(* 1 - cosine_distance(a, b), as <<signed dot^2, |a|^2 * |b|^2>> *)
similarity(a, b) == <<Dot(a, b) * Abs(Dot(a, b)), Dot(a, a) * Dot(b, b)>>

(* sim < thr, for a similarity sim and a threshold thr = <<num, den>> >= 0 *)
SimBelow(sim, thr) ==
  sim[1] < 0 \/ sim[1] * thr[2] * thr[2] < thr[1] * thr[1] * sim[2]

(* cosine_distance(a, q) <= cosine_distance(b, q) *)
NotFarther(a, b, q) ==
  similarity(a, q)[1] * similarity(b, q)[2]
    >= similarity(b, q)[1] * similarity(a, q)[2]

(* similarity_threshold = 0.95 *)
DefaultThreshold == <<19, 20>>

-----------------------------------------------------------------------------
(* QueryCache rows, response payloads, the Redis store *)

NoPayload == [answer |-> 0, dapp |-> <<>>]

NoRow ==
  [id |-> 0, query_text |-> <<>>, query_embedding |-> <<>>, dapp |-> <<>>,
   pool_id |-> None, response_json |-> NoPayload, use_count |-> 0,
   last_used_at |-> 0, created_at |-> 0, updated_at |-> 0]

(* the dict of get_cache_stats on an empty table *)
NoStats ==
  [total_queries |-> 0, popular_queries |-> <<>>, oldest_entry |-> NoneInt,
   newest_entry |-> NoneInt]

(* the outcome of the latest CacheService call, as its caller sees it:     *)
(* row is the QueryCache object the SELECT loaded (before any UPDATE),     *)
(* fault the collaborator that failed during the call, error the exception *)
(* that left the method                                                    *)
NoRet ==
  [op |-> "none", query |-> <<>>, dapp |-> <<>>, thr |-> <<0, 1>>,
   max_age |-> NoneInt, pool_id |-> None, hit |-> FALSE, row |-> NoRow,
   payload |-> NoPayload, sim |-> <<0, 1>>, count |-> 0, at |-> 0,
   fault |-> None, error |-> None, stats |-> NoStats]

(* json.dumps / json.loads of a response dict *)
json_dumps(d) == <<"json", d>>
json_loads(s) == s[2]

(* cache_key = "query_cache:" + sha256(query.lower()); the digest is       *)
(* modelled as injective                                                   *)
CacheKey(query) == <<"query_cache:", LowerOf[query]>>

RedisKeys == {CacheKey(q) : q \in AllTexts}

NoVal == [value |-> <<>>, expires_at |-> 0]

(* redis.get: a key is gone once its TTL has run out *)
RedisGet(key) ==
  IF redis[key] # NoVal /\ now < redis[key].expires_at
  THEN redis[key].value
  ELSE <<>>

(* no RAGService call made yet *)
NoRag ==
  [op |-> "none", query |-> <<>>, dapp |-> <<>>, top_k |-> 0,
   thr |-> <<0, 1>>, documents |-> <<>>, max_length |-> 0, context |-> <<>>,
   fault |-> None, error |-> None]

(* no chunk_content call made yet *)
NoChunk ==
  [pc |-> "idle", content |-> <<>>, chunk_size |-> 0, overlap |-> 0,
   start |-> 0, chunks |-> <<>>, windows |-> <<>>]

(* Optional[str] None where the string is a text, Optional[float] None *)
NoneText == <<None>>
NoneAmount == <<>>

(* no classification yet *)
NoClassification ==
  [query_type |-> "none", pool_id |-> NoneText, amount |-> NoneAmount,
   currency |-> NoneText, confidence |-> <<0, 0>>, requires_apr |-> FALSE]

(* no classify call made yet *)
NoCls ==
  [op |-> "none", query |-> <<>>, pool_id |-> NoneText,
   result |-> NoClassification]

-----------------------------------------------------------------------------
Init ==
  /\ now = 0
  /\ nops = 0
  /\ cache = {}
  /\ nextId = 1
  /\ redis = [k \in RedisKeys |-> NoVal]
  /\ ret = NoRet
  /\ reqs = <<>>
  /\ docs = {}
  /\ rag = NoRag
  /\ chunk = NoChunk
  /\ cls = NoCls

(* time passes *)
Tick(d) ==
  /\ nops < MaxOps
  /\ nops' = nops + 1
  /\ now' = now + d
  /\ UNCHANGED <<cache, nextId, redis, ret, reqs, docs, rag, chunk, cls>>

-----------------------------------------------------------------------------
(* CacheService.get_cached_response *)

(* CandidateRows without its scope filter *)
CandidateRowsAnyDapp(dapp, max_age_seconds) ==
  {e \in cache :
     /\ e.query_embedding # <<>>
     /\ (Truthy(max_age_seconds) => e.updated_at >= now - max_age_seconds)}

(* the rows the SELECT ranks: WHERE query_embedding IS NOT NULL AND        *)
(* dapp = :dapp, and AND updated_at >= cutoff  if max_age_seconds:         *)
CandidateRows(dapp, max_age_seconds) ==
  {e \in cache :
     /\ e.query_embedding # <<>>
     /\ e.dapp = dapp
     /\ (Truthy(max_age_seconds) => e.updated_at >= now - max_age_seconds)}

(* Nearest with the order reversed: ORDER BY ... DESC *)
Farthest(rows, query_embedding) ==
  {r \in rows : \A o \in rows :
      NotFarther(o.query_embedding, r.query_embedding, query_embedding)}

(* ORDER BY cosine_distance LIMIT 1: the rows the statement may return     *)
(* (rows at equal distance come back in an unspecified order)              *)
Nearest(rows, query_embedding) ==
  {r \in rows : \A o \in rows :
      NotFarther(r.query_embedding, o.query_embedding, query_embedding)}

(* SelectRow with the age test applied to the nearest row of the scope,    *)
(* after the ranking instead of in the WHERE clause                        *)
SelectRowAgeAfterRank(query_embedding, dapp, max_age_seconds) ==
  {r \in Nearest(CandidateRows(dapp, NoneInt), query_embedding) :
     Truthy(max_age_seconds) => r.updated_at >= now - max_age_seconds}

(* the statement of get_cached_response: the rows result.first() may be    *)
(* (none when the set is empty)                                            *)
SelectRow(query_embedding, dapp, max_age_seconds) ==
  Nearest(CandidateRows(dapp, max_age_seconds), query_embedding)

(* an UPDATE that counts down instead of up *)
UpdateCacheStatsCountingDown(cache_id) ==
  {IF e.id = cache_id
   THEN [e EXCEPT !.use_count = e.use_count - 1,
                  !.last_used_at = now,
                  !.updated_at = now]
   ELSE e : e \in cache}

(* a read-modify-write of the counter: the caller writes back the value    *)
(* its SELECT loaded, plus one                                             *)
UpdateCacheStatsFromLoaded(cache_id) ==
  LET loaded == {reqs[r].row.use_count : r \in
                   {i \in 1..Len(reqs) : /\ reqs[i].pc = "update"
                                         /\ reqs[i].row.id = cache_id}}
  IN
  {IF e.id = cache_id
   THEN [e EXCEPT !.use_count =
                    IF loaded = {} THEN e.use_count + 1
                    ELSE 1 + CHOOSE n \in loaded : \A m \in loaded : n <= m,
                  !.last_used_at = now,
                  !.updated_at = now]
   ELSE e : e \in cache}

(* _update_cache_stats: UPDATE ... SET use_count = use_count + 1,          *)
(* last_used_at = utcnow(); the UPDATE fires updated_at's onupdate         *)
UpdateCacheStats(cache_id) ==
  {IF e.id = cache_id
   THEN [e EXCEPT !.use_count = e.use_count + 1,
                  !.last_used_at = now,
                  !.updated_at = now]
   ELSE e : e \in cache}

(* a lookup that counts the use of the nearest row before it tests the     *)
(* threshold                                                               *)
GetCachedResponseCountsFirst(query, dapp, similarity_threshold, max_age_seconds) ==
  LET query_embedding == encode(query)
      rows == SelectRow(query_embedding, dapp, max_age_seconds)
      call == [NoRet EXCEPT !.op = "get_cached_response", !.query = query,
                            !.dapp = dapp, !.thr = similarity_threshold,
                            !.max_age = max_age_seconds, !.at = now]
  IN
  /\ IF rows = {}
     THEN /\ ret' = call
          /\ UNCHANGED <<cache, nops>>
     ELSE \E row \in rows :
            LET sim == similarity(row.query_embedding, query_embedding) IN
            /\ nops < MaxOps
            /\ nops' = nops + 1
            /\ cache' = UpdateCacheStats(row.id)
            /\ ret' = IF SimBelow(sim, similarity_threshold)
                      THEN call
                      ELSE [call EXCEPT !.hit = TRUE, !.row = row, !.sim = sim,
                                        !.payload = row.response_json]
  /\ UNCHANGED <<now, nextId, redis, reqs, docs, rag, chunk, cls>>

GetCachedResponse(query, dapp, similarity_threshold, max_age_seconds) ==
  LET query_embedding == encode(query)
      rows == SelectRow(query_embedding, dapp, max_age_seconds)
      call == [NoRet EXCEPT !.op = "get_cached_response", !.query = query,
                            !.dapp = dapp, !.thr = similarity_threshold,
                            !.max_age = max_age_seconds, !.at = now]
  IN
  /\ IF rows = {}
     THEN /\ ret' = call
          /\ UNCHANGED <<cache, nops, cls>>
     ELSE \E row \in rows :
            LET sim == similarity(row.query_embedding, query_embedding) IN
            IF SimBelow(sim, similarity_threshold)
            THEN /\ ret' = call
                 /\ UNCHANGED <<cache, nops, cls>>
            ELSE /\ nops < MaxOps
                 /\ nops' = nops + 1
                 /\ cache' = UpdateCacheStats(row.id)
                 /\ ret' = [call EXCEPT !.hit = TRUE, !.row = row, !.sim = sim,
                                        !.payload = row.response_json]
  /\ UNCHANGED <<now, nextId, redis, reqs, docs, rag, chunk, cls>>

-----------------------------------------------------------------------------
(* CacheService.get_cached_response in concurrent requests.  The method    *)
(* gives up control at  await db.execute(stmt)  (line 74) and again at     *)
(* await self._update_cache_stats  (line 87): between the SELECT of one    *)
(* call and its UPDATE, other calls run.  Each request has its own         *)
(* session; the UPDATE computes use_count + 1 in the database, on the row  *)
(* as it is when the statement runs.                                       *)

(* lines 49-84 of a call that a request makes: the SELECT and the          *)
(* threshold test                                                          *)
LookupSelect(query, dapp, similarity_threshold, max_age_seconds) ==
  LET query_embedding == encode(query)
      rows == SelectRow(query_embedding, dapp, max_age_seconds)
      call == [query |-> query, dapp |-> dapp, pc |-> "done", hit |-> FALSE,
               row |-> NoRow, payload |-> NoPayload]
  IN
  /\ nops < MaxOps
  /\ nops' = nops + 1
  /\ IF rows = {}
     THEN reqs' = Append(reqs, call)
     ELSE \E row \in rows :
            IF SimBelow(similarity(row.query_embedding, query_embedding),
                        similarity_threshold)
            THEN reqs' = Append(reqs, call)
            ELSE reqs' = Append(reqs, [call EXCEPT !.pc = "update",
                                                   !.row = row])
  /\ UNCHANGED <<now, cache, nextId, redis, ret, docs, rag, chunk, cls>>

(* lines 86-94 of the call: the UPDATE, then the payload is returned *)
LookupUpdate(r) ==
  /\ reqs[r].pc = "update"
  /\ cache' = UpdateCacheStats(reqs[r].row.id)
  /\ reqs' = [reqs EXCEPT ![r] =
                [@ EXCEPT !.pc = "done", !.hit = TRUE,
                          !.payload = reqs[r].row.response_json]]
  /\ UNCHANGED <<now, nops, nextId, redis, ret, docs, rag, chunk, cls>>

-----------------------------------------------------------------------------
(* CacheService.save_response and _cache_in_redis *)

(* _cache_in_redis: setex under the query's key; a Redis failure is        *)
(* swallowed and leaves the store as it was                                *)
CacheInRedis(query, response, redis_ok) ==
  IF redis_ok
  THEN [redis EXCEPT ![CacheKey(query)] =
          [value |-> json_dumps(response),
           expires_at |-> now + RedisTtlHours * SecondsPerHour]]
  ELSE redis

(* QueryCache(...): use_count = 1, last_used_at = utcnow(), and the column *)
(* defaults of created_at and updated_at                                   *)
NewEntry(query, response, dapp, pool_id) ==
  [id |-> nextId, query_text |-> query, query_embedding |-> encode(query),
   dapp |-> dapp, pool_id |-> pool_id, response_json |-> response,
   use_count |-> 1, last_used_at |-> now, created_at |-> now,
   updated_at |-> now]

(* save_response(query, response, db, dapp, ..., pool_id, ...) *)
SaveResponseOf(query, response, dapp, pool_id, redis_ok) ==
  LET cache_entry == NewEntry(query, response, dapp, pool_id)
  IN
  /\ nops < MaxOps
  /\ nops' = nops + 1
  /\ cache' = cache \cup {cache_entry}
  /\ nextId' = nextId + 1
  /\ redis' = CacheInRedis(query, response, redis_ok)
  /\ ret' = [NoRet EXCEPT !.op = "save_response", !.query = query,
                          !.dapp = dapp, !.pool_id = pool_id,
                          !.row = cache_entry, !.payload = response,
                          !.at = now]
  /\ UNCHANGED <<now, reqs, docs, rag, chunk, cls>>

(* the response is the one generated for this call: answer nextId *)
SaveResponse(query, dapp, pool_id, redis_ok) ==
  SaveResponseOf(query, [answer |-> nextId, dapp |-> dapp], dapp, pool_id,
                 redis_ok)

-----------------------------------------------------------------------------
(* CacheService.get_from_redis(query).  The method takes no scope: dapp is *)
(* the scope of the request its caller is serving, and is only recorded.   *)

RedisLookup(query, redis_ok) ==
  IF redis_ok THEN RedisGet(CacheKey(query)) ELSE <<>>

GetFromRedis(query, dapp, redis_ok) ==
  LET cached == RedisLookup(query, redis_ok)
      call == [NoRet EXCEPT !.op = "get_from_redis", !.query = query,
                            !.dapp = dapp, !.at = now]
  IN
  /\ ret' = IF cached # <<>>
            THEN [call EXCEPT !.hit = TRUE, !.payload = json_loads(cached)]
            ELSE call
  /\ UNCHANGED <<now, nops, cache, nextId, redis, reqs, docs, rag, chunk, cls>>

-----------------------------------------------------------------------------
(* CacheService.get_cache_stats(db).  The method takes no scope: dapp is   *)
(* the scope its caller asks about, and is only recorded.                  *)

(* .limit(5) *)
PopularLimit == 5

(* ORDER BY use_count DESC: the orders the statement may return the rows   *)
(* in (rows of equal use_count come in an unspecified order)               *)
PopularOrders(rows) ==
  {o \in [1..Cardinality(rows) -> rows] :
     /\ \A i, j \in 1..Cardinality(rows) : i # j => o[i] # o[j]
     /\ \A i, j \in 1..Cardinality(rows) :
          i < j => o[i].use_count >= o[j].use_count}

(* min(created_at) and max(created_at); NULL on an empty table *)
OldestCreated(rows) ==
  IF rows = {} THEN NoneInt
  ELSE (CHOOSE e \in rows : \A o \in rows : e.created_at <= o.created_at).created_at

NewestCreated(rows) ==
  IF rows = {} THEN NoneInt
  ELSE (CHOOSE e \in rows : \A o \in rows : e.created_at >= o.created_at).created_at

GetCacheStats(dapp) ==
  /\ \E o \in PopularOrders(cache) :
       ret' = [NoRet EXCEPT
                 !.op = "get_cache_stats", !.dapp = dapp, !.at = now,
                 !.stats =
                   [total_queries |-> Cardinality(cache),
                    popular_queries |->
                      [i \in 1..Min2(PopularLimit, Cardinality(cache)) |->
                         [query |-> o[i].query_text,
                          use_count |-> o[i].use_count]],
                    oldest_entry |-> OldestCreated(cache),
                    newest_entry |-> NewestCreated(cache)]]
  /\ UNCHANGED <<now, nops, cache, nextId, redis, reqs, docs, rag, chunk, cls>>

-----------------------------------------------------------------------------
(* CacheService.invalidate_cache *)

(* a DELETE that removes a single matching row, as with LIMIT 1 *)
InvalidatedRowsOneOnly(pool_id, older_than_hours) ==
  LET matching == {e \in cache :
                     /\ (TruthyStr(pool_id) => e.pool_id = pool_id)
                     /\ (Truthy(older_than_hours) =>
                           e.updated_at < now - older_than_hours * SecondsPerHour)}
  IN {e \in matching : \A o \in matching : e.id <= o.id}

(* the rows the DELETE matches *)
InvalidatedRows(pool_id, older_than_hours) ==
  {e \in cache :
     /\ (TruthyStr(pool_id) => e.pool_id = pool_id)
     /\ (Truthy(older_than_hours) =>
           e.updated_at < now - older_than_hours * SecondsPerHour)}

InvalidateCache(pool_id, older_than_hours) ==
  LET gone == InvalidatedRows(pool_id, older_than_hours) IN
  /\ nops < MaxOps
  /\ nops' = nops + 1
  /\ cache' = cache \ gone
  /\ ret' = [NoRet EXCEPT !.op = "invalidate_cache", !.pool_id = pool_id,
                          !.max_age = older_than_hours,
                          !.count = Cardinality(gone), !.at = now]
  /\ UNCHANGED <<now, nextId, redis, reqs, docs, rag, chunk, cls>>

-----------------------------------------------------------------------------
(* CacheService.get_cached_response when a collaborator fails.  The method *)
(* has no try/except: the exception of embedding_service.encode (line 49), *)
(* of db.execute (line 74) or of the UPDATE in _update_cache_stats (line   *)
(* 166) leaves the method and reaches the caller.                          *)

Faults == {"embedding", "select", "update"}

ErrorOf(fault) == IF fault = "embedding" THEN "EmbeddingError" ELSE "DBAPIError"

(* the failure caught and answered with None, as get_from_redis does *)
GetCachedResponseSwallows(query, dapp, similarity_threshold, max_age_seconds, fault) ==
  /\ fault \in Faults
  /\ ret' = [NoRet EXCEPT !.op = "get_cached_response", !.query = query,
                          !.dapp = dapp, !.thr = similarity_threshold,
                          !.max_age = max_age_seconds, !.at = now,
                          !.fault = fault]
  /\ UNCHANGED <<now, nops, cache, nextId, redis, reqs, docs, rag, chunk, cls>>

(* the UPDATE is only reached with a row at or above the threshold *)
GetCachedResponseRaises(query, dapp, similarity_threshold, max_age_seconds, fault) ==
  LET query_embedding == encode(query)
      rows == SelectRow(query_embedding, dapp, max_age_seconds)
  IN
  /\ fault \in Faults
  /\ fault = "update" =>
       \E row \in rows :
         ~SimBelow(similarity(row.query_embedding, query_embedding),
                   similarity_threshold)
  /\ ret' = [NoRet EXCEPT !.op = "get_cached_response", !.query = query,
                          !.dapp = dapp, !.thr = similarity_threshold,
                          !.max_age = max_age_seconds, !.at = now,
                          !.fault = fault, !.error = ErrorOf(fault)]
  /\ UNCHANGED <<now, nops, cache, nextId, redis, reqs, docs, rag, chunk, cls>>

-----------------------------------------------------------------------------
(* CacheService.save_response when a collaborator fails.  The method has   *)
(* no try/except around encode (line 132) or db.flush (line 156): the      *)
(* exception leaves the method before line 159, where _cache_in_redis is   *)
(* called.                                                                 *)

SaveFaults == {"embedding", "insert"}

(* a store that writes the Redis record first and inserts afterwards *)
SaveResponseRedisFirst(query, dapp, pool_id, redis_ok, fault) ==
  /\ fault \in SaveFaults
  /\ redis' = CacheInRedis(query, [answer |-> nextId, dapp |-> dapp], redis_ok)
  /\ ret' = [NoRet EXCEPT !.op = "save_response", !.query = query,
                          !.dapp = dapp, !.pool_id = pool_id, !.at = now,
                          !.fault = fault, !.error = ErrorOf(fault)]
  /\ UNCHANGED <<now, nops, cache, nextId, reqs, docs, rag, chunk, cls>>

SaveResponseRaises(query, dapp, pool_id, redis_ok, fault) ==
  /\ fault \in SaveFaults
  /\ ret' = [NoRet EXCEPT !.op = "save_response", !.query = query,
                          !.dapp = dapp, !.pool_id = pool_id, !.at = now,
                          !.fault = fault, !.error = ErrorOf(fault)]
  /\ UNCHANGED <<now, nops, cache, nextId, redis, reqs, docs, rag, chunk, cls>>

-----------------------------------------------------------------------------
(* RAGService.retrieve_relevant_documents *)

(* similarity_threshold = 0.7 *)
RetrievalThreshold == <<7, 10>>

(* WHERE dapp = :dapp AND embedding IS NOT NULL *)
CandidateDocs(dapp) == {d \in docs : d.dapp = dapp /\ d.embedding # <<>>}

(* a statement without ORDER BY: the rows in any order *)
UnrankedOrders(rows, query_embedding) ==
  {o \in [1..Cardinality(rows) -> rows] :
     \A i, j \in 1..Cardinality(rows) : i # j => o[i] # o[j]}

(* ORDER BY cosine_distance: the orders the statement may return the rows  *)
(* in (rows at equal distance come in an unspecified order)                *)
RankedOrders(rows, query_embedding) ==
  {o \in [1..Cardinality(rows) -> rows] :
     /\ \A i, j \in 1..Cardinality(rows) : i # j => o[i] # o[j]
     /\ \A i, j \in 1..Cardinality(rows) :
          i < j => NotFarther(o[i].embedding, o[j].embedding, query_embedding)}

(* the first n elements of s *)
Take(s, n) == SubSeq(s, 1, Min2(n, Len(s)))

(* the dict built for a row *)
RetrievedDoc(row, query_embedding) ==
  [id |-> row.id, title |-> row.title, content |-> row.content,
   url |-> row.url, similarity |-> similarity(row.embedding, query_embedding)]

RetrieveRelevantDocuments(query, dapp, top_k, similarity_threshold) ==
  LET query_embedding == encode(query)
      Passes(row) == ~SimBelow(similarity(row.embedding, query_embedding),
                               similarity_threshold)
  IN
  /\ \E order \in RankedOrders(CandidateDocs(dapp), query_embedding) :
       LET rows == Take(order, top_k * 2)
           kept == Take(SelectSeq(rows, Passes), top_k)
       IN rag' = [NoRag EXCEPT
                    !.op = "retrieve_relevant_documents", !.query = query,
                    !.dapp = dapp, !.top_k = top_k,
                    !.thr = similarity_threshold,
                    !.documents = [i \in 1..Len(kept) |->
                                     RetrievedDoc(kept[i], query_embedding)]]
  /\ UNCHANGED <<now, nops, cache, nextId, redis, ret, reqs, docs, chunk, cls>>

(* no try/except here either: the exception of encode (line 42) or of      *)
(* db.execute (line 69) reaches the caller                                 *)
RetrieveRelevantDocumentsRaises(query, dapp, top_k, similarity_threshold, fault) ==
  /\ fault \in {"embedding", "select"}
  /\ rag' = [NoRag EXCEPT
               !.op = "retrieve_relevant_documents", !.query = query,
               !.dapp = dapp, !.top_k = top_k, !.thr = similarity_threshold,
               !.fault = fault, !.error = ErrorOf(fault)]
  /\ UNCHANGED <<now, nops, cache, nextId, redis, ret, reqs, docs, chunk, cls>>

-----------------------------------------------------------------------------
(* POST /ask: verify_api_key, then ask_question *)

(* settings.api_keys, default "dev-key-123" *)
ApiKeys == {"dev-key-123"}

other_protocols ==
  << <<"a","a","v","e">>,
     <<"c","o","m","p","o","u","n","d">>,
     <<"u","n","i","s","w","a","p">>,
     <<"c","u","r","v","e">>,
     <<"c","o","n","v","e","x">>,
     <<"y","e","a","r","n">>,
     <<"m","a","k","e","r">>,
     <<"l","i","d","o">>,
     <<"h","y","p","e","r","l","i","q","u","i","d">>,
     <<"d","y","d","x">>,
     <<"g","m","x">>,
     <<"s","y","n","t","h","e","t","i","x">>,
     <<"b","a","l","a","n","c","e","r">>,
     <<"s","u","s","h","i","s","w","a","p">>,
     <<"p","a","n","c","a","k","e","s","w","a","p">>,
     <<"t","r","a","d","e","r"," ","j","o","e">>,
     <<"b","e","n","q","i">> >>

(* a check that finds no other protocol in any query *)
NoProtocolMentioned(query, dapp) == <<>>

(* the first protocol of other_protocols the query names and that is not   *)
(* the request's own dapp; <<>> stands for None                            *)
MentionedProtocol(query, dapp) ==
  LET query_lower == lower(query)
      current_protocol == lower(dapp)
      found == {i \in 1..Len(other_protocols) :
                  /\ Contains(query_lower, other_protocols[i])
                  /\ other_protocols[i] # current_protocol}
  IN IF found = {}
     THEN <<>>
     ELSE other_protocols[CHOOSE i \in found : \A j \in found : i <= j]

(* the parameters get_from_redis declares, and the keyword arguments the   *)
(* handler passes besides the positional query                             *)
GetFromRedisParams == {"self", "query"}
ExactLookupKeywords == {"dapp"}

(* Python binds a call only if every keyword names a parameter; otherwise  *)
(* the call raises TypeError before the function body runs                 *)
CallBinds(params, keywords) == keywords \subseteq params

NewRequest(query, dapp, api_key, session_id) ==
  [query |-> query, dapp |-> dapp, api_key |-> api_key,
   session_in |-> session_id, pc |-> "handler", status |-> 0,
   answer |-> "", session_id |-> None, steps |-> <<>>,
   exact |-> "none", error |-> None]

(* a dependency that lets every request through *)
VerifyApiKeyAcceptsAll(api_key) == 200

(* verify_api_key: 401 without a key, 403 with an unknown key *)
VerifyApiKey(api_key) ==
  IF ~TruthyStr(api_key) THEN 401
  ELSE IF api_key \notin ApiKeys THEN 403
  ELSE 200

(* a request arrives; the api-key dependency runs before the handler *)
AskReceive(query, dapp, api_key, session_id) ==
  LET req == NewRequest(query, dapp, api_key, session_id)
      code == VerifyApiKey(api_key)
  IN
  /\ nops < MaxOps
  /\ nops' = nops + 1
  /\ reqs' = Append(reqs,
                IF code = 200 THEN req
                ELSE [req EXCEPT !.pc = "done", !.status = code,
                                 !.error = "HTTPException"])
  /\ UNCHANGED <<now, cache, nextId, redis, ret, docs, rag, chunk, cls>>

(* ask_question, lines 53-97: the early refusal, with a fresh session id *)
AskRefuse(r) ==
  /\ reqs[r].pc = "handler"
  /\ MentionedProtocol(reqs[r].query, reqs[r].dapp) # <<>>
  /\ reqs' = [reqs EXCEPT ![r] =
                [@ EXCEPT !.pc = "done", !.status = 200,
                          !.answer = "refusal", !.session_id = "uuid4"]]
  /\ UNCHANGED <<now, nops, cache, nextId, redis, ret, docs, rag, chunk, cls>>

(* ask_question, lines 99-128, up to its first await: classify, then the   *)
(* call get_from_redis(request.query, dapp=dapp).  No await precedes the   *)
(* call, so the block runs without interleaving.  The call does not bind,  *)
(* the TypeError leaves the handler and the global exception handler       *)
(* answers 500; the statements after line 115 are never reached.           *)
AskPipeline(r, redis_ok) ==
  LET req == reqs[r]
      session_id == IF TruthyStr(req.session_in) THEN req.session_in
                    ELSE "uuid4"
      classified == [req EXCEPT !.session_id = session_id,
                                !.steps = <<"classify", "exact_lookup">>]
      cached == RedisLookup(req.query, redis_ok)
  IN
  /\ req.pc = "handler"
  /\ MentionedProtocol(req.query, req.dapp) = <<>>
  /\ reqs' = [reqs EXCEPT ![r] =
       IF ~CallBinds(GetFromRedisParams, ExactLookupKeywords)
       THEN [classified EXCEPT !.pc = "done", !.status = 500,
                               !.exact = "raised", !.error = "TypeError"]
       ELSE IF cached # <<>>
       THEN [classified EXCEPT !.pc = "done", !.status = 200,
                               !.exact = "hit", !.answer = "cached"]
       ELSE [classified EXCEPT !.pc = "semantic_lookup", !.exact = "miss"]]
  /\ UNCHANGED <<now, nops, cache, nextId, redis, ret, docs, rag, chunk, cls>>

-----------------------------------------------------------------------------
(* GitBookScraper.chunk_content: Python string primitives, then the loop   *)

(* s[a:b], with Python's rules for negative and out-of-range indices *)
PySlice(s, a, b) ==
  LET n == Len(s)
      lo == IF a < 0 THEN Max2(n + a, 0) ELSE Min2(a, n)
      hi == IF b < 0 THEN Max2(n + b, 0) ELSE Min2(b, n)
  IN IF lo >= hi THEN <<>> ELSE SubSeq(s, lo + 1, hi)

(* s.rfind(c): the 0-based index of the last c in s, -1 if there is none *)
RFind(s, c) ==
  LET at == {i \in 1..Len(s) : s[i] = c}
  IN IF at = {} THEN -1 ELSE (CHOOSE i \in at : \A j \in at : j <= i) - 1

IsSpace(c) == c \in {" ", "\n", "\t"}

(* s.strip() *)
Strip(s) ==
  LET keep == {i \in 1..Len(s) : ~IsSpace(s[i])}
  IN IF keep = {} THEN <<>>
     ELSE SubSeq(s, CHOOSE i \in keep : \A j \in keep : i <= j,
                    CHOOSE i \in keep : \A j \in keep : j <= i)

(* the advance with the overlap added instead of subtracted *)
NextStartSkipping(end, overlap) == end + overlap

(* start = end - overlap *)
NextStart(end, overlap) == end - overlap

(* lines 271-275: the short-content return, else the loop is entered *)
ChunkEnter ==
  /\ chunk.pc = "call"
  /\ chunk' = IF Len(chunk.content) <= chunk.chunk_size
              THEN [chunk EXCEPT !.pc = "done", !.chunks = <<chunk.content>>]
              ELSE [chunk EXCEPT !.pc = "loop", !.start = 0]
  /\ UNCHANGED <<now, nops, cache, nextId, redis, ret, reqs, docs, rag, cls>>

(* lines 277-292: one iteration of the while loop; windows records the     *)
(* values of start and end at the append                                   *)
ChunkIterate ==
  LET content == chunk.content
      start == chunk.start
      end0 == start + chunk.chunk_size
      chunk0 == PySlice(content, start, end0)
      last_period == RFind(chunk0, ".")
      last_newline == RFind(chunk0, "\n")
      break_point == Max2(last_period, last_newline)
      cut == end0 < Len(content) /\ 2 * break_point > chunk.chunk_size
      text == IF cut THEN PySlice(chunk0, 0, break_point + 1) ELSE chunk0
      end == IF cut THEN start + break_point + 1 ELSE end0
  IN
  /\ chunk.pc = "loop"
  /\ chunk.start < Len(content)
  /\ nops < MaxOps
  /\ nops' = nops + 1
  /\ chunk' = [chunk EXCEPT !.chunks = Append(@, Strip(text)),
                            !.windows = Append(@, <<start, end>>),
                            !.start = NextStart(end, chunk.overlap)]
  /\ UNCHANGED <<now, cache, nextId, redis, ret, reqs, docs, rag, cls>>

(* line 276 false, line 294: the loop ends and chunks is returned *)
ChunkReturn ==
  /\ chunk.pc = "loop"
  /\ chunk.start >= Len(chunk.content)
  /\ chunk' = [chunk EXCEPT !.pc = "done"]
  /\ UNCHANGED <<now, nops, cache, nextId, redis, ret, reqs, docs, rag, cls>>

-----------------------------------------------------------------------------
(* RAGService.build_context *)

(* "..." appended to a truncated document, and the least space a truncated *)
(* document is given                                                       *)
TruncationMarker == <<".", ".", ".">>
MinTruncatedSpace == 100

(* "\n\n", the separator of "\n\n".join(context_parts) *)
BlockSeparator == <<"\n", "\n">>

(* f"[{doc['title']}]\n{doc['content']}\nSource: {doc['url']}\n" *)
DocText(doc) ==
  <<"[">> \o doc.title \o <<"]", "\n">> \o doc.content \o
  <<"\n", "S", "o", "u", "r", "c", "e", ":", " ">> \o doc.url \o <<"\n">>

RECURSIVE ContextPartsSkipping(_, _, _, _)
(* a loop that passes over a document that does not fit and goes on to the *)
(* later ones instead of leaving the loop                                  *)
ContextPartsSkipping(documents, i, current_length, max_length) ==
  IF i > Len(documents) THEN <<>>
  ELSE LET doc_text == DocText(documents[i])
           doc_length == Len(doc_text)
       IN IF current_length + doc_length > max_length
          THEN ContextPartsSkipping(documents, i + 1, current_length,
                                    max_length)
          ELSE <<doc_text>> \o
               ContextPartsSkipping(documents, i + 1,
                                    current_length + doc_length, max_length)

RECURSIVE ContextParts(_, _, _, _)
(* the for loop of build_context from document i on: context_parts *)
ContextParts(documents, i, current_length, max_length) ==
  IF i > Len(documents) THEN <<>>
  ELSE LET doc_text == DocText(documents[i])
           doc_length == Len(doc_text)
           remaining == max_length - current_length
       IN IF current_length + doc_length > max_length
          THEN IF remaining > MinTruncatedSpace
               THEN << PySlice(doc_text, 0, remaining) \o TruncationMarker >>
               ELSE <<>>
          ELSE <<doc_text>> \o
               ContextParts(documents, i + 1, current_length + doc_length,
                            max_length)

RECURSIVE Join(_, _)
(* sep.join(parts) *)
Join(parts, sep) ==
  IF parts = <<>> THEN <<>>
  ELSE IF Len(parts) = 1 THEN parts[1]
  ELSE parts[1] \o sep \o Join(Tail(parts), sep)

BuildContext(documents, max_length) ==
  IF documents = <<>> THEN <<>>
  ELSE Join(ContextParts(documents, 1, 0, max_length), BlockSeparator)

(* a call of build_context on the arguments held in rag *)
BuildContextCall ==
  /\ rag.op = "call_build_context"
  /\ rag' = [rag EXCEPT !.op = "build_context",
                        !.context = BuildContext(rag.documents, rag.max_length)]
  /\ UNCHANGED <<now, nops, cache, nextId, redis, ret, reqs, docs, chunk, cls>>

-----------------------------------------------------------------------------
(* Python floats of the magnitudes the classifier computes with: an IEEE   *)
(* double d is the pair <<hi, lo>> with d = (hi * 2^30 + lo) * 2^-60 and   *)
(* lo < 2^30; every double between 2^-7 and 2 is such a pair, and so is    *)
(* every exact sum of a few of them                                        *)

Limb == 2^30

FNorm(hi, lo) == <<hi + (lo \div Limb), lo % Limb>>

(* a + b, exact *)
FExactAdd(a, b) == FNorm(a[1] + b[1], a[2] + b[2])

(* the distance between neighbouring doubles at the magnitude of v, in     *)
(* units of 2^-60: 53 significant bits                                     *)
UlpUnits(v) ==
  IF v[1] >= 2^30 THEN 256
  ELSE IF v[1] >= 2^29 THEN 128
  ELSE IF v[1] >= 2^28 THEN 64
  ELSE IF v[1] >= 2^27 THEN 32
  ELSE IF v[1] >= 2^26 THEN 16
  ELSE IF v[1] >= 2^25 THEN 8
  ELSE IF v[1] >= 2^24 THEN 4
  ELSE IF v[1] >= 2^23 THEN 2
  ELSE 1

(* round to nearest double, ties to even *)
FRound(v) ==
  LET q == UlpUnits(v)
      r == v[2] % q
      down == <<v[1], v[2] - r>>
      up == FNorm(v[1], v[2] - r + q)
  IN IF 2 * r < q THEN down
     ELSE IF 2 * r > q THEN up
     ELSE IF (v[2] \div q) % 2 = 0 THEN down
     ELSE up

(* a + b in float arithmetic *)
FAdd(a, b) == FRound(FExactAdd(a, b))

RECURSIVE FTimesExact(_, _)
FTimesExact(n, a) ==
  IF n = 0 THEN <<0, 0>> ELSE FExactAdd(FTimesExact(n - 1, a), a)

(* n * a in float arithmetic, n an int *)
FMul(n, a) == FRound(FTimesExact(n, a))

FLess(a, b) == a[1] < b[1] \/ (a[1] = b[1] /\ a[2] < b[2])

(* the first argument whatever the second *)
FFirst(a, b) == a

(* min(a, b) *)
FMin(a, b) == IF FLess(b, a) THEN b ELSE a

(* the literals 0.1, 0.4, 0.5 and 1.0 *)
F01 == <<107374182, 429496736>>
F04 == <<429496729, 644245120>>
F05 == <<536870912, 0>>
F10 == <<1073741824, 0>>

-----------------------------------------------------------------------------
(* QueryClassifier *)

TruthyText(s) == s # NoneText /\ s # <<>>

(* truthiness of an Optional[float] <<mantissa, decimals>>: None and 0.0   *)
(* are both falsy                                                          *)
TruthyAmount(a) == a # NoneAmount /\ a[1] # 0

EARNINGS == "earnings"
GENERAL == "general"
RISK == "risk"
TECHNICAL == "technical"

EARNINGS_KEYWORDS ==
  <<
     <<"e", "a", "r", "n">>,
     <<"e", "a", "r", "n", "i", "n", "g">>,
     <<"e", "a", "r", "n", "i", "n", "g", "s">>,
     <<"y", "i", "e", "l", "d">>,
     <<"a", "p", "r">>,
     <<"a", "p", "y">>,
     <<"r", "e", "t", "u", "r", "n">>,
     <<"r", "e", "t", "u", "r", "n", "s">>,
     <<"p", "r", "o", "f", "i", "t">>,
     <<"i", "n", "c", "o", "m", "e">>,
     <<"i", "n", "t", "e", "r", "e", "s", "t">>,
     <<"r", "e", "w", "a", "r", "d">>,
     <<"r", "e", "w", "a", "r", "d", "s">>,
     <<"m", "a", "k", "e", " ", "m", "o", "n", "e", "y">>,
     <<"h", "o", "w", " ", "m", "u", "c", "h">>,
     <<"c", "a", "l", "c", "u", "l", "a", "t", "e">>,
     <<"c", "a", "l", "c", "u", "l", "a", "t", "o", "r">>
  >>

RISK_KEYWORDS ==
  <<
     <<"r", "i", "s", "k">>,
     <<"r", "i", "s", "k", "s">>,
     <<"r", "i", "s", "k", "y">>,
     <<"s", "a", "f", "e">>,
     <<"s", "a", "f", "e", "t", "y">>,
     <<"s", "e", "c", "u", "r", "e">>,
     <<"s", "e", "c", "u", "r", "i", "t", "y">>,
     <<"d", "a", "n", "g", "e", "r">>,
     <<"d", "a", "n", "g", "e", "r", "o", "u", "s">>,
     <<"l", "o", "s", "e">>,
     <<"l", "o", "s", "s">>,
     <<"l", "o", "s", "s", "e", "s">>,
     <<"a", "u", "d", "i", "t">>,
     <<"a", "u", "d", "i", "t", "e", "d">>,
     <<"h", "a", "c", "k">>,
     <<"h", "a", "c", "k", "e", "d">>,
     <<"e", "x", "p", "l", "o", "i", "t">>,
     <<"v", "u", "l", "n", "e", "r", "a", "b", "i", "l", "i", "t", "y">>,
     <<"i", "n", "s", "u", "r", "a", "n", "c", "e">>
  >>

TECHNICAL_KEYWORDS ==
  <<
     <<"h", "o", "w", " ", "t", "o">>,
     <<"h", "o", "w", " ", "d", "o", " ", "i">>,
     <<"t", "u", "t", "o", "r", "i", "a", "l">>,
     <<"g", "u", "i", "d", "e">>,
     <<"s", "t", "e", "p">>,
     <<"s", "t", "e", "p", "s">>,
     <<"d", "e", "p", "o", "s", "i", "t">>,
     <<"w", "i", "t", "h", "d", "r", "a", "w">>,
     <<"c", "o", "n", "n", "e", "c", "t">>,
     <<"w", "a", "l", "l", "e", "t">>,
     <<"t", "r", "a", "n", "s", "a", "c", "t", "i", "o", "n">>,
     <<"m", "e", "t", "a", "m", "a", "s", "k">>,
     <<"p", "h", "a", "n", "t", "o", "m">>,
     <<"s", "o", "l", "a", "n", "a">>,
     <<"b", "l", "o", "c", "k", "c", "h", "a", "i", "n">>
  >>

(* any(keyword in query for keyword in keywords) *)
AnyKeyword(query, keywords) ==
  \E i \in 1..Len(keywords) : Contains(query, keywords[i])

(* sum(1 for kw in keywords if kw in query) *)
Matches(query, keywords) ==
  Cardinality({i \in 1..Len(keywords) : Contains(query, keywords[i])})

(* a classifier that looks for the risk keywords first *)
DetermineTypeRiskFirst(query) ==
  IF AnyKeyword(query, RISK_KEYWORDS) THEN RISK
  ELSE IF AnyKeyword(query, EARNINGS_KEYWORDS) THEN EARNINGS
  ELSE IF AnyKeyword(query, TECHNICAL_KEYWORDS) THEN TECHNICAL
  ELSE GENERAL

DetermineType(query) ==
  IF AnyKeyword(query, EARNINGS_KEYWORDS) THEN EARNINGS
  ELSE IF AnyKeyword(query, RISK_KEYWORDS) THEN RISK
  ELSE IF AnyKeyword(query, TECHNICAL_KEYWORDS) THEN TECHNICAL
  ELSE GENERAL

(* s[i:].startswith(sub), i counted from 0 *)
StartsWith(s, i, sub) ==
  i + Len(sub) <= Len(s) /\ SubSeq(s, i + 1, i + Len(sub)) = sub

(* least element of a non-empty set of numbers *)
Least(S) == CHOOSE x \in S : \A y \in S : x <= y

(* the patterns  a[- ]?b  as <<a, b>> *)
pool_patterns ==
  <<
     <<<<"a", "l", "l", "e", "z">>, <<"u", "s", "d", "c">>>>,
     <<<<"m", "a", "i", "n">>, <<"u", "s", "d", "c">>>>,
     <<<<"j", "i", "t", "o">>, <<"s", "o", "l">>>>,
     <<<<"u", "s", "d", "t">>, <<"m", "a", "i", "n">>>>
  >>

(* what  a[- ]?b  matches at offset i of the query, <<>> when nothing *)
PoolMatchAt(query, i, pattern) ==
  LET a == pattern[1]
      b == pattern[2]
  IN IF StartsWith(query, i, a \o <<"-">> \o b) THEN a \o <<"-">> \o b
     ELSE IF StartsWith(query, i, a \o <<" ">> \o b) THEN a \o <<" ">> \o b
     ELSE IF StartsWith(query, i, a \o b) THEN a \o b
     ELSE <<>>

(* re.search(pattern, query).group(0): the leftmost match, <<>> if none *)
PoolSearch(query, pattern) ==
  LET at == {i \in 0..Len(query) : PoolMatchAt(query, i, pattern) # <<>>}
  IN IF at = {} THEN <<>> ELSE PoolMatchAt(query, Least(at), pattern)

(* s.replace(old, new) for one-character old, new a text *)
Replace(s, old, new) ==
  IF new = <<>> THEN SelectSeq(s, LAMBDA c : c # old)
  ELSE [i \in 1..Len(s) |-> IF s[i] = old THEN new[1] ELSE s[i]]

RECURSIVE ExtractPoolIdFrom(_, _)
(* the for loop of _extract_pool_id from pattern n on *)
ExtractPoolIdFrom(query, n) ==
  IF n > Len(pool_patterns) THEN NoneText
  ELSE IF PoolSearch(query, pool_patterns[n]) # <<>>
       THEN lower(Replace(PoolSearch(query, pool_patterns[n]), " ", <<"-">>))
       ELSE ExtractPoolIdFrom(query, n + 1)

ExtractPoolId(query) == ExtractPoolIdFrom(query, 1)

Digits == <<"0", "1", "2", "3", "4", "5", "6", "7", "8", "9">>

IsDigit(c) == \E d \in 1..Len(Digits) : Digits[d] = c

DigitValue(c) == (CHOOSE d \in 1..Len(Digits) : Digits[d] = c) - 1

RECURSIVE DigitsEnd(_, _)
(* \d+ from offset i, greedy: the offset after the run of digits *)
DigitsEnd(s, i) ==
  IF i < Len(s) /\ IsDigit(s[i + 1]) THEN DigitsEnd(s, i + 1) ELSE i

RECURSIVE GroupsEnd(_, _)
(* (?:,\d{3})* from offset i, greedy *)
GroupsEnd(s, i) ==
  IF /\ i + 4 <= Len(s)
     /\ s[i + 1] = ","
     /\ IsDigit(s[i + 2]) /\ IsDigit(s[i + 3]) /\ IsDigit(s[i + 4])
  THEN GroupsEnd(s, i + 4)
  ELSE i

(* (?:\.\d+)? from offset i, greedy *)
FractionEnd(s, i) ==
  IF i + 2 <= Len(s) /\ s[i + 1] = "." /\ IsDigit(s[i + 2])
  THEN DigitsEnd(s, i + 1)
  ELSE i

(* \d+(?:,\d{3})*(?:\.\d+)? from offset i: the offset after the number,    *)
(* i itself when no digit stands at i                                      *)
NumberEnd(s, i) == FractionEnd(s, GroupsEnd(s, DigitsEnd(s, i)))

RECURSIVE SpacesEnd(_, _)
(* \s* from offset i, greedy *)
SpacesEnd(s, i) ==
  IF i < Len(s) /\ IsSpace(s[i + 1]) THEN SpacesEnd(s, i + 1) ELSE i

(* (?:usdc|usdt|usd|dollars?) and (?:in|on|with) *)
AmountUnits ==
  <<
     <<"u", "s", "d", "c">>,
     <<"u", "s", "d", "t">>,
     <<"u", "s", "d">>,
     <<"d", "o", "l", "l", "a", "r">>
  >>

AmountPrepositions ==
  <<
     <<"i", "n">>,
     <<"o", "n">>,
     <<"w", "i", "t", "h">>
  >>

OneOfAt(s, i, words) == \E w \in 1..Len(words) : StartsWith(s, i, words[w])

(* the offsets at which pattern n of _extract_amount matches; the number   *)
(* is what follows the offset, after "$" and spaces for pattern 2.  What   *)
(* follows the number cannot begin with a digit, "," or ".", so a match    *)
(* that fails with the longest number fails with every shorter one         *)
AmountMatches(s, n) ==
  {i \in 0..(Len(s) - 1) :
     CASE n = 1 -> /\ IsDigit(s[i + 1])
                   /\ OneOfAt(s, SpacesEnd(s, NumberEnd(s, i)), AmountUnits)
       [] n = 2 -> /\ s[i + 1] = "$"
                   /\ SpacesEnd(s, i + 1) < Len(s)
                   /\ IsDigit(s[SpacesEnd(s, i + 1) + 1])
       [] n = 3 -> /\ IsDigit(s[i + 1])
                   /\ SpacesEnd(s, NumberEnd(s, i)) > NumberEnd(s, i)
                   /\ OneOfAt(s, SpacesEnd(s, NumberEnd(s, i)),
                              AmountPrepositions)}

(* match.group(1) of the leftmost match of pattern n *)
AmountGroup(s, n) ==
  LET i == Least(AmountMatches(s, n))
      from == IF n = 2 THEN SpacesEnd(s, i + 1) ELSE i
  IN SubSeq(s, from + 1, NumberEnd(s, from))

RECURSIVE DigitsValue(_)
DigitsValue(s) ==
  IF s = <<>> THEN 0
  ELSE 10 * DigitsValue(SubSeq(s, 1, Len(s) - 1)) + DigitValue(s[Len(s)])

(* float(amount_str) of digits with at most one ".": <<mantissa, decimals>> *)
(* stands for mantissa / 10^decimals                                       *)
ParseFloat(amount_str) ==
  LET point == {i \in 1..Len(amount_str) : amount_str[i] = "."}
      decimals == IF point = {} THEN 0 ELSE Len(amount_str) - Least(point)
  IN <<DigitsValue(Replace(amount_str, ".", <<>>)), decimals>>

RECURSIVE ExtractAmountFrom(_, _)
(* the for loop of _extract_amount from pattern n on *)
ExtractAmountFrom(query, n) ==
  IF n > 3 THEN NoneAmount
  ELSE IF AmountMatches(query, n) # {}
       THEN ParseFloat(Replace(AmountGroup(query, n), ",", <<>>))
       ELSE ExtractAmountFrom(query, n + 1)

ExtractAmount(query) == ExtractAmountFrom(query, 1)

currencies ==
  <<
     <<"u", "s", "d", "c">>,
     <<"u", "s", "d", "t">>,
     <<"u", "s", "d">>,
     <<"s", "o", "l">>,
     <<"e", "t", "h">>,
     <<"b", "t", "c">>
  >>

Capitals ==
  {"A", "B", "C", "D", "E", "F", "G", "H", "I", "J", "K", "L", "M",
   "N", "O", "P", "Q", "R", "S", "T", "U", "V", "W", "X", "Y", "Z"}

UpperChar(c) ==
  IF \E u \in Capitals : LowerChar(u) = c /\ u # c
  THEN CHOOSE u \in Capitals : LowerChar(u) = c
  ELSE c

upper(s) == [i \in 1..Len(s) |-> UpperChar(s[i])]

RECURSIVE ExtractCurrencyFrom(_, _)
(* the for loop of _extract_currency from currency n on *)
ExtractCurrencyFrom(query, n) ==
  IF n > Len(currencies) THEN NoneText
  ELSE IF Contains(query, currencies[n]) THEN upper(currencies[n])
  ELSE ExtractCurrencyFrom(query, n + 1)

ExtractCurrency(query) == ExtractCurrencyFrom(query, 1)

(* the keyword list counted for a type; none for general *)
KeywordsOf(query_type) ==
  CASE query_type = EARNINGS -> EARNINGS_KEYWORDS
    [] query_type = RISK -> RISK_KEYWORDS
    [] query_type = TECHNICAL -> TECHNICAL_KEYWORDS
    [] OTHER -> <<>>

CalculateConfidence(query, query_type) ==
  LET base == F05
      typed == IF query_type \in {EARNINGS, RISK, TECHNICAL}
               THEN FAdd(base,
                         FMin(FMul(Matches(query, KeywordsOf(query_type)),
                                   F01),
                              F04))
               ELSE base
      pooled == IF TruthyText(ExtractPoolId(query))
                THEN FAdd(typed, F01) ELSE typed
      amounted == IF TruthyAmount(ExtractAmount(query))
                  THEN FAdd(pooled, F01) ELSE pooled
  IN FMin(amounted, F10)

(* the dict classify(query, pool_id) returns *)
Classify(query, pool_id) ==
  LET query_lower == lower(query)
      query_type == DetermineType(query_lower)
  IN [query_type |-> query_type,
      pool_id |-> IF ~TruthyText(pool_id) THEN ExtractPoolId(query_lower)
                  ELSE pool_id,
      amount |-> ExtractAmount(query_lower),
      currency |-> ExtractCurrency(query_lower),
      confidence |-> CalculateConfidence(query_lower, query_type),
      requires_apr |-> (query_type = EARNINGS)]

(* a call of classify on the arguments held in cls *)
ClassifyCall ==
  /\ cls.op = "call_classify"
  /\ cls' = [cls EXCEPT !.op = "classify",
                        !.result = Classify(cls.query, cls.pool_id)]
  /\ UNCHANGED <<now, nops, cache, nextId, redis, ret, reqs, docs, rag, chunk>>

-----------------------------------------------------------------------------
(* scrape_and_index: every chunk of a scraped page goes to add_document *)

(* embedding_service.encode of a chunk of a page *)
EncodeContent(content) ==
  IF content \in AllTexts THEN encode(content) ELSE <<1, 1>>

(* RAGService.add_document: the row it inserts *)
AddDocument(id, title, content, url, dapp) ==
  [id |-> id, dapp |-> dapp, title |-> title, content |-> content,
   url |-> url, embedding |-> EncodeContent(content)]

(* f"{title} (Part {i+1}/{len(chunks)})" when the page has several chunks; *)
(* i counts from 1 here                                                    *)
ChunkTitle(title, i, n) ==
  IF n > 1
  THEN title \o <<" ", "(", "P", "a", "r", "t", " ", Digits[i + 1], "/",
                  Digits[n + 1], ")">>
  ELSE title

(* the loop over the chunks chunk_content returned for one page *)
IndexChunks ==
  /\ chunk.pc = "done"
  /\ chunk' = [chunk EXCEPT !.pc = "indexed"]
  /\ docs' = docs \cup
       {AddDocument(nextId + i - 1,
                    ChunkTitle(<<"T">>, i, Len(chunk.chunks)),
                    chunk.chunks[i], <<"u">>, Kamino) :
          i \in 1..Len(chunk.chunks)}
  /\ nextId' = nextId + Len(chunk.chunks)
  /\ UNCHANGED <<now, nops, cache, redis, ret, reqs, rag, cls>>

-----------------------------------------------------------------------------
(* ask_question: the figures of a request, and the response stored for it *)

(* KaminoService.get_pool_apr in its default configuration: the pools of   *)
(* mock_pools                                                              *)
mock_pools ==
  {<<"a", "l", "l", "e", "z", "-", "u", "s", "d", "c">>,
   <<"m", "a", "i", "n", "-", "u", "s", "d", "c">>,
   <<"j", "i", "t", "o", "-", "s", "o", "l">>,
   <<"u", "s", "d", "t", "-", "m", "a", "i", "n">>}

(* assumptions=None *)
NoAssumptions == <<>>

(* lines 103-111: classification["x"] or request.x *)
ResolvedFigures(query, pool_id, amount, currency) ==
  LET classification == Classify(query, pool_id) IN
  [pool |-> IF TruthyText(classification.pool_id)
            THEN classification.pool_id ELSE pool_id,
   amount |-> IF TruthyAmount(classification.amount)
              THEN classification.amount ELSE amount,
   currency |-> IF TruthyText(classification.currency)
                THEN classification.currency ELSE currency]

(* lines 135-158: QueryAssumptions(pool, amount, currency) when the query  *)
(* is an earnings query, a pool id is known and APR data exists for it     *)
AssumptionsOf(query, pool_id, amount, currency) ==
  LET figures == ResolvedFigures(query, pool_id, amount, currency) IN
  IF /\ Classify(query, pool_id).query_type = EARNINGS
     /\ TruthyText(figures.pool)
     /\ lower(figures.pool) \in mock_pools
  THEN figures
  ELSE NoAssumptions

(* save_response on the response ask_question builds for a request with    *)
(* these fields (lines 233-258)                                            *)
SaveGenerated(query, dapp, pool_id, amount, currency, redis_ok) ==
  SaveResponseOf(query,
                 [answer |-> nextId, dapp |-> dapp,
                  assumptions |->
                    AssumptionsOf(query, pool_id, amount, currency)],
                 dapp,
                 ResolvedFigures(query, pool_id, amount, currency).pool,
                 redis_ok)

-----------------------------------------------------------------------------
(* The inputs of the model *)

TickSteps == {CacheTtlSeconds, CacheTtlSeconds + 1}
MaxAges == {0, CacheTtlSeconds}
LookupQueries == {QApy, QRisk}

DoTick == \E d \in TickSteps : Tick(d)

DoLookup ==
  \E q \in LookupQueries, d \in Dapps, a \in MaxAges :
    GetCachedResponse(q, d, DefaultThreshold, a)

SaveCalls == {<<QApy, Kamino>>, <<QApr, Kamino>>, <<QApy, Aave>>}

DoSave == \E c \in SaveCalls : SaveResponse(c[1], c[2], None, TRUE)

DoInvalidate == InvalidateCache(None, NoneInt)

(* the semantic cache, driven through the public methods of CacheService *)
Next ==
  \/ DoTick
  \/ DoLookup
  \/ DoSave
  \/ DoInvalidate

Spec == Init /\ [][Next]_vars

(* the exact cache *)
ExactTexts == {QApy, QApyCap}
ExactTickSteps == {RedisTtlHours * SecondsPerHour}

DoTickExact == \E d \in ExactTickSteps : Tick(d)

DoSaveExact ==
  \E q \in ExactTexts, d \in Dapps, ok \in BOOLEAN : SaveResponse(q, d, None, ok)

DoGetFromRedis ==
  \E q \in ExactTexts, d \in Dapps, ok \in BOOLEAN : GetFromRedis(q, d, ok)

NextExact ==
  \/ DoTickExact
  \/ DoSaveExact
  \/ DoGetFromRedis

SpecExact == Init /\ [][NextExact]_vars

(* the exact cache on texts that differ in case and in the whitespace      *)
(* around them, within one scope and with a working store                  *)
KeyTexts == {QApy, QApyCap, QApyPadded, QApr}

DoSaveKey == \E q \in KeyTexts : SaveResponse(q, Kamino, None, TRUE)

DoGetKey == \E q \in KeyTexts : GetFromRedis(q, Kamino, TRUE)

NextKey ==
  \/ DoTickExact
  \/ DoSaveKey
  \/ DoGetKey

SpecKey == Init /\ [][NextKey]_vars

(* both cache tiers as ask_question consults them (lines 115-123): the     *)
(* exact lookup, and the semantic lookup with the configured staleness     *)
(* floor, while time passes                                                *)
DoSaveStale == SaveResponse(QApy, Kamino, None, TRUE)

DoExactStale == GetFromRedis(QApy, Kamino, TRUE)

DoSemanticStale ==
  GetCachedResponse(QApy, Kamino, DefaultThreshold, CacheTtlSeconds)

NextStale ==
  \/ DoTick
  \/ DoSaveStale
  \/ DoExactStale
  \/ DoSemanticStale

SpecStale == Init /\ [][NextStale]_vars

(* both cache tiers between stores and invalidations of the whole table    *)
NextPurge ==
  \/ DoTick
  \/ DoSaveStale
  \/ DoInvalidate
  \/ DoExactStale
  \/ DoSemanticStale

SpecPurge == Init /\ [][NextPurge]_vars

(* both cache tiers on requests that share their text and differ in their  *)
(* pool_id and amount fields: <<pool_id, amount, currency>>                *)
FigureRequests ==
  {<<<<"a", "l", "l", "e", "z", "-", "u", "s", "d", "c">>, <<1000, 0>>,
     <<"U", "S", "D", "C">>>>,
   <<<<"m", "a", "i", "n", "-", "u", "s", "d", "c">>, <<1000, 0>>,
     <<"U", "S", "D", "C">>>>,
   <<<<"a", "l", "l", "e", "z", "-", "u", "s", "d", "c">>, <<500, 0>>,
     <<"U", "S", "D", "C">>>>}

DoSaveFigures ==
  \E f \in FigureRequests : SaveGenerated(QApy, Kamino, f[1], f[2], f[3], TRUE)

DoSemanticFigures ==
  \E q \in {QApy, QApr} :
    GetCachedResponse(q, Kamino, DefaultThreshold, CacheTtlSeconds)

NextFigures ==
  \/ DoSaveFigures
  \/ DoExactStale
  \/ DoSemanticFigures

SpecFigures == Init /\ [][NextFigures]_vars

(* semantic lookups of concurrent requests on entries stored before and    *)
(* between them                                                            *)
DoSaveConcurrent ==
  \E q \in {QApy, QRisk} : SaveResponse(q, Kamino, None, TRUE)

DoLookupSelect ==
  \E q \in {QApy, QApr, QRisk}, d \in Dapps :
    LookupSelect(q, d, DefaultThreshold, CacheTtlSeconds)

DoLookupUpdate == \E r \in 1..Len(reqs) : LookupUpdate(r)

NextConcurrent ==
  \/ DoSaveConcurrent
  \/ DoLookupSelect
  \/ DoLookupUpdate

SpecConcurrent == Init /\ [][NextConcurrent]_vars

(* stores that succeed and stores whose embedding or insert fails, with    *)
(* Redis reachable or not                                                  *)
DoSaveStore ==
  \E q \in {QApy, QApr}, ok \in BOOLEAN : SaveResponse(q, Kamino, None, ok)

DoSaveRaises ==
  \E q \in {QApy, QApr}, ok \in BOOLEAN, f \in SaveFaults :
    SaveResponseRaises(q, Kamino, None, ok, f)

NextStore ==
  \/ DoTick
  \/ DoSaveStore
  \/ DoSaveRaises

SpecStore == Init /\ [][NextStore]_vars

(* POST /ask *)
AskCalls ==
  {<<QApy, Kamino, "dev-key-123", None>>,
   <<QAaveApy, Kamino, "dev-key-123", "session-1">>,
   <<QAaveApy, Aave, "dev-key-123", None>>,
   <<QApy, Kamino, None, None>>,
   <<QApy, Kamino, "invalid-key", None>>}

AskSaveCalls == {<<QApy, Kamino>>, <<QApy, Aave>>}

DoAskReceive == \E c \in AskCalls : AskReceive(c[1], c[2], c[3], c[4])

DoSaveAsk == \E c \in AskSaveCalls : SaveResponse(c[1], c[2], None, TRUE)

DoAskRefuse == \E r \in 1..Len(reqs) : AskRefuse(r)

DoAskPipeline == \E r \in 1..Len(reqs), ok \in BOOLEAN : AskPipeline(r, ok)

NextAsk ==
  \/ DoSaveAsk
  \/ DoAskReceive
  \/ DoAskRefuse
  \/ DoAskPipeline

SpecAsk == Init /\ [][NextAsk]_vars

(* chunk_content on every content over a three-letter alphabet *)
MaxContentLen == 6
ChunkAlphabet == {"a", ".", "\n"}

RECURSIVE Strings(_)
Strings(n) ==
  IF n = 0 THEN {<<>>}
  ELSE LET shorter == Strings(n - 1)
       IN shorter \cup {Append(t, c) : t \in {u \in shorter : Len(u) = n - 1},
                                       c \in ChunkAlphabet}

ChunkContents == Strings(MaxContentLen)

(* <<chunk_size, overlap>> *)
ChunkParams == {<<3, 1>>, <<5, 1>>, <<5, 4>>}

InitChunk ==
  /\ now = 0
  /\ nops = 0
  /\ cache = {}
  /\ nextId = 1
  /\ redis = [k \in RedisKeys |-> NoVal]
  /\ ret = NoRet
  /\ reqs = <<>>
  /\ docs = {}
  /\ rag = NoRag
  /\ cls = NoCls
  /\ \E c \in ChunkContents, p \in ChunkParams :
       chunk = [NoChunk EXCEPT !.pc = "call", !.content = c,
                               !.chunk_size = p[1], !.overlap = p[2]]

NextChunk ==
  \/ ChunkEnter
  \/ ChunkIterate
  \/ ChunkReturn
  \/ IndexChunks

SpecChunk == InitChunk /\ [][NextChunk]_vars

(* build_context on lists of retrieved documents of three sizes *)
MaxDocs == 3

(* a retrieved document whose content is n characters long *)
DocOfSize(n) ==
  [title |-> <<"T">>, content |-> [i \in 1..n |-> "x"], url |-> <<"u">>]

ContextDocs == {DocOfSize(25), DocOfSize(75), DocOfSize(135)}

RECURSIVE DocLists(_)
DocLists(n) ==
  IF n = 0 THEN {<<>>}
  ELSE LET shorter == DocLists(n - 1)
       IN shorter \cup {Append(l, d) : l \in {u \in shorter : Len(u) = n - 1},
                                       d \in ContextDocs}

MaxLengths == {0, 120, 140, 141, 200, 2000}

InitContext ==
  /\ now = 0
  /\ nops = 0
  /\ cache = {}
  /\ nextId = 1
  /\ redis = [k \in RedisKeys |-> NoVal]
  /\ ret = NoRet
  /\ reqs = <<>>
  /\ docs = {}
  /\ chunk = NoChunk
  /\ cls = NoCls
  /\ \E l \in DocLists(MaxDocs), m \in MaxLengths :
       rag = [NoRag EXCEPT !.op = "call_build_context", !.documents = l,
                           !.max_length = m]

NextContext == BuildContextCall

SpecContext == InitContext /\ [][NextContext]_vars

(* invalidate_cache on a table that earlier requests filled *)
PoolAllez == "allez-usdc"
PoolSol == "sol-usdc"

(* the row save_response inserted at time at *)
EntryAt(id, query, dapp, pool_id, at) ==
  [id |-> id, query_text |-> query, query_embedding |-> encode(query),
   dapp |-> dapp, pool_id |-> pool_id,
   response_json |-> [answer |-> id, dapp |-> dapp],
   use_count |-> 1, last_used_at |-> at, created_at |-> at, updated_at |-> at]

StoredEntries ==
  {EntryAt(1, QApy, Kamino, PoolAllez, 0),
   EntryAt(2, QApy, Aave, PoolAllez, 0),
   EntryAt(3, QApr, Kamino, None, SecondsPerHour - 1),
   EntryAt(4, QApr, Kamino, PoolSol, SecondsPerHour + 1)}

(* <<pool_id, older_than_hours>> *)
InvalidateCalls ==
  {<<None, NoneInt>>, <<PoolAllez, NoneInt>>, <<"", NoneInt>>,
   <<None, 1>>, <<PoolAllez, 1>>, <<None, 0>>}

InitInvalidate ==
  /\ now = 2 * SecondsPerHour - 1
  /\ nops = 0
  /\ cache \in SUBSET StoredEntries
  /\ nextId = Cardinality(StoredEntries) + 1
  /\ redis = [k \in RedisKeys |-> NoVal]
  /\ ret = NoRet
  /\ reqs = <<>>
  /\ docs = {}
  /\ rag = NoRag
  /\ chunk = NoChunk
  /\ cls = NoCls

DoTickHour == Tick(SecondsPerHour)

DoInvalidateCall == \E c \in InvalidateCalls : InvalidateCache(c[1], c[2])

NextInvalidate ==
  \/ DoTickHour
  \/ DoInvalidateCall

SpecInvalidate == InitInvalidate /\ [][NextInvalidate]_vars

(* get_cache_stats on a table that earlier requests filled, between        *)
(* lookups that hit                                                        *)
DoLookupStats ==
  \E q \in Queries, d \in Dapps :
    GetCachedResponse(q, d, DefaultThreshold, NoneInt)

DoGetCacheStats == \E d \in Dapps : GetCacheStats(d)

NextStats ==
  \/ DoLookupStats
  \/ DoGetCacheStats

SpecStats == InitInvalidate /\ [][NextStats]_vars

(* lookups and retrievals with failing collaborators, on tables filled     *)
(* earlier                                                                 *)
DocumentRow(id, dapp, content) ==
  [id |-> id, dapp |-> dapp, title |-> <<"T">>, content |-> content,
   url |-> <<"u">>, embedding |-> encode(content)]

DocumentRows ==
  {DocumentRow(1, Kamino, QApy), DocumentRow(2, Kamino, QApr),
   DocumentRow(3, Aave, QApy), DocumentRow(4, Kamino, QRisk)}

TopKs == {1, 3}

InitFault ==
  /\ now = 2 * SecondsPerHour - 1
  /\ nops = 0
  /\ cache \in {StoredEntries, {}}
  /\ nextId = Cardinality(StoredEntries) + 1
  /\ redis = [k \in RedisKeys |-> NoVal]
  /\ ret = NoRet
  /\ reqs = <<>>
  /\ docs \in {DocumentRows, {}}
  /\ rag = NoRag
  /\ chunk = NoChunk
  /\ cls = NoCls

DoLookupFault ==
  \E d \in Dapps : GetCachedResponse(QApy, d, DefaultThreshold, NoneInt)

DoLookupRaises ==
  \E d \in Dapps, f \in Faults :
    GetCachedResponseRaises(QApy, d, DefaultThreshold, NoneInt, f)

DoRetrieve ==
  \E d \in Dapps, k \in TopKs :
    RetrieveRelevantDocuments(QApy, d, k, RetrievalThreshold)

DoRetrieveRaises ==
  \E f \in {"embedding", "select"} :
    RetrieveRelevantDocumentsRaises(QApy, Kamino, 3, RetrievalThreshold, f)

NextFault ==
  \/ DoLookupFault
  \/ DoLookupRaises
  \/ DoRetrieve
  \/ DoRetrieveRaises

SpecFault == InitFault /\ [][NextFault]_vars

(* retrieval on every subset of a documents table that holds equally near  *)
(* rows, a row under the floor, a row of another dapp and a row that has   *)
(* no embedding                                                            *)
RetrievalRows ==
  {DocumentRow(1, Kamino, QApy), DocumentRow(2, Kamino, QApr),
   DocumentRow(3, Aave, QApy), DocumentRow(4, Kamino, QRisk),
   DocumentRow(5, Kamino, QAaveApy), DocumentRow(6, Kamino, QApyCap),
   [DocumentRow(7, Kamino, QApy) EXCEPT !.embedding = <<>>]}

RetrievalTopKs == {1, 2, 3}
RetrievalFloors == {RetrievalThreshold, DefaultThreshold}

InitRetrieve ==
  /\ now = 0
  /\ nops = 0
  /\ cache = {}
  /\ nextId = 1
  /\ redis = [k \in RedisKeys |-> NoVal]
  /\ ret = NoRet
  /\ reqs = <<>>
  /\ docs \in SUBSET RetrievalRows
  /\ rag = NoRag
  /\ chunk = NoChunk
  /\ cls = NoCls

DoRetrieveTopK ==
  \E d \in Dapps, k \in RetrievalTopKs, f \in RetrievalFloors :
    RetrieveRelevantDocuments(QApy, d, k, f)

NextRetrieve == DoRetrieveTopK

SpecRetrieve == InitRetrieve /\ [][NextRetrieve]_vars

(* classify on questions put together from an opening that decides the     *)
(* type, an amount and a pool, with and without a pool id of the request   *)
ClassifyOpenings ==
  {
     <<>>,
     <<"E", "a", "r", "n", " ">>,
     <<"H", "o", "w", " ", "m", "u", "c", "h", " ", "c", "a", "n", " ", "I",
       " ", "e", "a", "r", "n", " ", "o", "n", " ">>,
     <<"i", "s", " ", "i", "t", " ", "s", "a", "f", "e", " ", "t", "o", " ",
       "e", "a", "r", "n", " ", "y", "i", "e", "l", "d", " ">>,
     <<"r", "i", "s", "k", "y", " ">>,
     <<"H", "o", "w", " ", "t", "o", " ", "d", "e", "p", "o", "s", "i", "t",
       " ">>,
     <<"s", "a", "f", "e", " ", "w", "a", "l", "l", "e", "t", " ">>,
     <<"a", "p", "y", " ", "a", "p", "r", " ", "y", "i", "e", "l", "d", " ",
       "r", "e", "t", "u", "r", "n", "s", " ">>
  }

ClassifyAmounts ==
  {
     <<>>,
     <<"1", "0", "0", "0", " ", "U", "S", "D", "C", " ">>,
     <<"0", " ", "u", "s", "d", "c", " ">>,
     <<"$", "5", " ">>,
     <<"2", ".", "5", "0", " ", "i", "n", " ">>,
     <<"1", ",", "0", "0", "0", " ", "u", "s", "d", " ">>
  }

ClassifyPools ==
  {
     <<>>,
     <<"i", "n", " ", "a", "l", "l", "e", "z", "-", "u", "s", "d", "c",
       "?">>,
     <<"m", "a", "i", "n", " ", "u", "s", "d", "c">>,
     <<"j", "i", "t", "o", "s", "o", "l">>
  }

ClassifyQueries ==
  {o \o a \o p : o \in ClassifyOpenings, a \in ClassifyAmounts,
                 p \in ClassifyPools}

(* request.pool_id: absent, empty, given *)
ClassifyPoolIds == {NoneText, <<>>, <<"s", "o", "l", "-", "u", "s", "d", "c">>}

InitClassify ==
  /\ now = 0
  /\ nops = 0
  /\ cache = {}
  /\ nextId = 1
  /\ redis = [k \in RedisKeys |-> NoVal]
  /\ ret = NoRet
  /\ reqs = <<>>
  /\ docs = {}
  /\ rag = NoRag
  /\ chunk = NoChunk
  /\ \E q \in ClassifyQueries, p \in ClassifyPoolIds :
       cls = [NoCls EXCEPT !.op = "call_classify", !.query = q, !.pool_id = p]

NextClassify == ClassifyCall

SpecClassify == InitClassify /\ [][NextClassify]_vars

-----------------------------------------------------------------------------
(* Properties *)

IsLookup == ret.op = "get_cached_response"
IsHit == IsLookup /\ ret.hit

(* a similarity of exactly 1.0 *)
SimIsOne(sim) == sim[1] = sim[2]

(* C1: a semantic lookup under scope B never returns an entry, or the      *)
(* payload of an entry, that was stored under another scope, however       *)
(* similar the texts are.                                                  *)
C1_ScopeIsolation ==
  IsHit => /\ ret.row.dapp = ret.dapp
           /\ ret.payload.dapp = ret.dapp
           /\ \E e \in cache : e.id = ret.row.id /\ e.dapp = ret.dapp

(* a hit while another scope holds an entry with the very same text *)
C1_Witness ==
  /\ IsHit
  /\ \E e \in cache : e.dapp # ret.dapp /\ e.query_text = ret.query

(* C2: an exact-cache record written under scope A is never returned by an *)
(* exact-cache get made for scope B # A.                                   *)
C2_ExactScopeIsolation ==
  (ret.op = "get_from_redis" /\ ret.hit) => ret.payload.dapp = ret.dapp

(* C3: a hit's entry belongs to the requested scope, its similarity is at  *)
(* least the floor and, when maxAgeSeconds is given, its updatedAt is at   *)
(* least now - maxAgeSeconds.                                              *)
C3_HitConditions ==
  IsHit => /\ ret.row.dapp = ret.dapp
           /\ ~SimBelow(ret.sim, ret.thr)
           /\ (ret.max_age # NoneInt =>
                 ret.row.updated_at >= ret.at - ret.max_age)

(* C4: a lookup with maxAgeSeconds = 0 issued a nonzero time after the     *)
(* entry was stored returns absent.                                        *)
C4_ZeroMaxAgeIsStale ==
  ~(IsHit /\ ret.max_age = 0 /\ ret.row.created_at < ret.at)

(* a lookup of the text and scope just stored, with the default floor and  *)
(* inside the staleness window                                             *)
RoundTripStep ==
  /\ ret.op = "save_response"
  /\ ret'.op = "get_cached_response"
  /\ ret'.query = ret.query
  /\ ret'.dapp = ret.dapp
  /\ ret'.thr = DefaultThreshold
  /\ (Truthy(ret'.max_age) => now - ret.at <= ret'.max_age)

(* C5 as stated: store(q, scope, payload) then lookup(q, scope, 0.95)      *)
(* returns a hit with the stored payload and similarity 1.0.               *)
C5_RoundTripStoredPayload ==
  [][RoundTripStep =>
       /\ ret'.hit
       /\ SimIsOne(ret'.sim)
       /\ ret'.payload = ret.payload]_vars

(* C5 amended: the lookup returns a hit at similarity 1.0 whose payload is *)
(* that of an entry of the scope whose embedding is at similarity 1.0 to   *)
(* the query: the stored entry or another one with the same embedding.     *)
C5_RoundTripSomeExactEntry ==
  [][RoundTripStep =>
       /\ ret'.hit
       /\ SimIsOne(ret'.sim)
       /\ \E e \in cache :
            /\ e.id = ret'.row.id
            /\ e.dapp = ret.dapp
            /\ SimIsOne(similarity(e.query_embedding, encode(ret.query)))
            /\ ret'.payload = e.response_json]_vars

(* the entry stored last, hit on its first use, with an older entry of the *)
(* same text and scope beside it                                           *)
C5_Witness ==
  /\ IsHit
  /\ SimIsOne(ret.sim)
  /\ ret.row.id = nextId - 1
  /\ ret.row.use_count = 1
  /\ \E e \in cache : /\ e.id # ret.row.id
                      /\ e.dapp = ret.dapp
                      /\ e.query_text = ret.query

(* updated_at of a row as the lookup in ret found it *)
UpdatedAtCall(e) ==
  IF ret.hit /\ e.id = ret.row.id THEN ret.row.updated_at ELSE e.updated_at

(* the rows of the lookup's scope that pass its staleness check *)
FreshAtCall ==
  {e \in cache :
     /\ e.dapp = ret.dapp
     /\ (ret.max_age # NoneInt => UpdatedAtCall(e) >= ret.at - ret.max_age)}

C7_HitChangesOnlyUsage ==
  [][(ret' # ret /\ ret'.op = "get_cached_response" /\ ret'.hit) =>
       cache' = {IF e.id = ret'.row.id
                 THEN [e EXCEPT !.use_count = e.use_count + 1,
                                !.last_used_at = now]
                 ELSE e : e \in cache}]_vars

Finished(r) == reqs[r].pc = "done"
Authorised(r) == reqs[r].api_key \in ApiKeys
NamesOtherProtocol(r) == MentionedProtocol(reqs[r].query, reqs[r].dapp) # <<>>

(* C8: with a valid key, a request that names no other protocol completes  *)
(* with status 200, a non-empty answer and a session id.                   *)
C8_AskSucceeds ==
  \A r \in 1..Len(reqs) :
    (Finished(r) /\ Authorised(r) /\ ~NamesOtherProtocol(r)) =>
      /\ reqs[r].status = 200
      /\ reqs[r].answer # ""
      /\ reqs[r].session_id # None

(* the steps of a request that ran the whole miss path *)
MissPath ==
  <<"classify", "exact_lookup", "semantic_lookup", "retrieve",
    "build_context", "generate", "store">>

(* C10: a request runs classify, exact lookup, then on an exact miss the   *)
(* semantic lookup, then on a semantic miss retrieval, context build,      *)
(* generation and store, in this order.                                    *)
C10_PipelineOrder ==
  \A r \in 1..Len(reqs) :
    (Finished(r) /\ Authorised(r) /\ ~NamesOtherProtocol(r)) =>
      \/ reqs[r].steps = SubSeq(MissPath, 1, 2) /\ reqs[r].exact = "hit"
      \/ reqs[r].steps = SubSeq(MissPath, 1, 3) /\ reqs[r].exact = "miss"
      \/ reqs[r].steps = MissPath /\ reqs[r].exact = "miss"

(* the text of content the half-open window w = <<start, end>> holds *)
WindowText(w) == PySlice(chunk.content, w[1], w[2])

RECURSIVE JoinWithoutOverlaps(_)
(* the window texts of windows 1..n, each later one without its first      *)
(* overlap characters, concatenated                                        *)
JoinWithoutOverlaps(n) ==
  IF n = 0 THEN <<>>
  ELSE IF n = 1 THEN WindowText(chunk.windows[1])
  ELSE JoinWithoutOverlaps(n - 1) \o
       PySlice(WindowText(chunk.windows[n]), chunk.overlap,
               Len(chunk.content) + chunk.overlap)

(* C17: on every iteration of chunk's loop the window start strictly       *)
(* increases, for every chunkSize > overlap >= 0.                          *)
C17_StartStrictlyIncreases ==
  [][(chunk.pc = "loop" /\ Len(chunk'.windows) > Len(chunk.windows)) =>
       chunk'.start > chunk.start]_vars

(* C18: for content longer than chunkSize the first window starts at 0,    *)
(* every later window starts at the end of the previous one minus overlap, *)
(* and when chunk returns the windows cover every position of content, so  *)
(* that the window texts without their overlaps concatenate to content.    *)
C18_WindowsCoverContent ==
  LET w == chunk.windows IN
  (chunk.pc \in {"loop", "done"} /\ Len(chunk.content) > chunk.chunk_size) =>
    /\ Len(w) >= 1 => w[1][1] = 0
    /\ \A i \in 2..Len(w) : w[i][1] = w[i - 1][2] - chunk.overlap
    /\ chunk.pc = "done" =>
         /\ \A pos \in 0..(Len(chunk.content) - 1) :
              \E i \in 1..Len(w) : w[i][1] <= pos /\ pos < w[i][2]
         /\ JoinWithoutOverlaps(Len(w)) = chunk.content

(* chunk returned several windows, the first cut at a break point before   *)
(* the raw boundary                                                        *)
C18_Witness ==
  /\ chunk.pc = "done"
  /\ Len(chunk.windows) >= 2
  /\ chunk.windows[1][2] < chunk.chunk_size
  /\ chunk.overlap > 0

(* C19: content no longer than chunkSize gives exactly one chunk, equal to *)
(* the content with its leading and trailing whitespace removed.           *)
C19_ShortContentTrimmed ==
  (chunk.pc = "done" /\ Len(chunk.content) <= chunk.chunk_size) =>
    chunk.chunks = <<Strip(chunk.content)>>

(* C20: the length of build_context's output, separators included, never   *)
(* exceeds max_length plus the length of one truncation marker.            *)
C20_ContextLengthBounded ==
  rag.op = "build_context" =>
    Len(rag.context) <= rag.max_length + Len(TruncationMarker)

(* a step that is a call of invalidate_cache *)
IsInvalidateStep ==
  ret'.op = "invalidate_cache" /\ nops' # nops /\ now' = now

(* C14: invalidate for scope S and pool P deletes only entries of scope S   *)
(* and pool P (whichever scope S the caller meant, the deleted entries all *)
(* belong to it), and returns the number of entries removed.               *)
C14_InvalidateWithinScope ==
  [][(IsInvalidateStep /\ TruthyStr(ret'.pool_id)) =>
       /\ \E S \in Dapps :
            \A e \in cache \ cache' : e.dapp = S /\ e.pool_id = ret'.pool_id
       /\ ret'.count = Cardinality(cache \ cache')]_vars

(* C15: invalidate deletes exactly the entries that satisfy every supplied *)
(* non-null filter, leaves the others unchanged and returns the number it  *)
(* deleted.                                                                *)
C15_DeletesExactlyMatching ==
  [][IsInvalidateStep =>
       LET matching ==
             {e \in cache :
                /\ (ret'.pool_id # None => e.pool_id = ret'.pool_id)
                /\ (ret'.max_age # NoneInt =>
                      e.updated_at < now - ret'.max_age * SecondsPerHour)}
       IN /\ cache' = cache \ matching
          /\ ret'.count = Cardinality(matching)]_vars

(* the second of two invalidate calls in a row with identical filters, the *)
(* first of which deleted something                                        *)
SecondInvalidateStep ==
  /\ IsInvalidateStep
  /\ ret.op = "invalidate_cache"
  /\ ret'.pool_id = ret.pool_id
  /\ ret'.max_age = ret.max_age
  /\ ret.count > 0

(* an entry that was younger than the age filter of the call in ret when   *)
(* that call was made and is older than it now                             *)
CrossedCutoff(e) ==
  /\ Truthy(ret.max_age)
  /\ e.updated_at >= ret.at - ret.max_age * SecondsPerHour
  /\ e.updated_at < now - ret.max_age * SecondsPerHour

(* C16 as stated: the second call returns 0 and changes nothing, for every *)
(* filter combination.                                                     *)
C16_SecondInvalidateReturnsZero ==
  [][SecondInvalidateStep => (ret'.count = 0 /\ cache' = cache)]_vars

(* C16 amended: the second call returns 0 and changes nothing unless a     *)
(* remaining entry has crossed the age cutoff between the two calls.       *)
C16_SecondInvalidateZeroUnlessAged ==
  [][(SecondInvalidateStep /\ \A e \in cache : ~CrossedCutoff(e)) =>
       (ret'.count = 0 /\ cache' = cache)]_vars

(* an invalidate with an age filter has deleted something, time has passed *)
(* since, entries remain and none has crossed the cutoff: the state the    *)
(* second call is made in                                                  *)
C16_Witness ==
  /\ ret.op = "invalidate_cache"
  /\ ret.count > 0
  /\ Truthy(ret.max_age)
  /\ now > ret.at
  /\ nops < MaxOps
  /\ cache # {}
  /\ \A e \in cache : ~CrossedCutoff(e)

(* C13: a lookup or a retrieval during which the embedding provider or the *)
(* storage layer fails ends in an error, not in absent or an empty result, *)
(* and creates or modifies no entry.                                       *)
C13_FailureIsAnError ==
  [][/\ (ret' # ret /\ ret'.fault # None) =>
          /\ ret'.error # None
          /\ ~ret'.hit
          /\ cache' = cache
          /\ docs' = docs
     /\ (rag' # rag /\ rag'.fault # None) =>
          /\ rag'.error # None
          /\ cache' = cache
          /\ docs' = docs]_vars

(* the UPDATE of a lookup that had found its entry failed, and a retrieval *)
(* on a filled table failed                                                *)
C13_Witness ==
  /\ ret.op = "get_cached_response"
  /\ ret.fault = "update"
  /\ ret.error # None
  /\ \E e \in cache : e.dapp = ret.dapp /\ e.query_text = ret.query
  /\ rag.op = "retrieve_relevant_documents"
  /\ rag.fault # None
  /\ rag.error # None
  /\ docs # {}

(* requests r1 and r2 are two authorised requests with the same text and   *)
(* scope that name no other protocol, both answered                        *)
SameQuestion(r1, r2) ==
  /\ r1 # r2
  /\ reqs[r1].query = reqs[r2].query
  /\ reqs[r1].dapp = reqs[r2].dapp
  /\ Finished(r1) /\ Authorised(r1) /\ ~NamesOtherProtocol(r1)
  /\ Finished(r2) /\ Authorised(r2) /\ ~NamesOtherProtocol(r2)

(* C11: two requests with the same text and scope that both miss the       *)
(* caches both generate and both store an entry without error, so once     *)
(* both are answered the scope holds an entry for the text (a later lookup *)
(* of it returns a hit) and neither request has failed.                    *)
C11_BothRequestsStore ==
  \A r1, r2 \in 1..Len(reqs) :
    SameQuestion(r1, r2) =>
      /\ reqs[r1].error = None /\ reqs[r2].error = None
      /\ \E e \in cache : /\ e.dapp = reqs[r1].dapp
                          /\ e.query_text = reqs[r1].query

(* C12: the exact-match cache never makes a request fail: no request ends  *)
(* in an error at its exact-cache lookup, whether the key-value store      *)
(* works or not.                                                           *)
C12_ExactCacheNeverFailsRequest ==
  \A r \in 1..Len(reqs) :
    (Len(reqs[r].steps) >= 1
       /\ reqs[r].steps[Len(reqs[r].steps)] = "exact_lookup") =>
      (reqs[r].exact \in {"hit", "miss"} /\ reqs[r].error = None)

-----------------------------------------------------------------------------
(* build_context: which blocks are emitted *)

RECURSIVE BlocksLength(_, _)
(* the summed length of the formatted blocks of the first k documents *)
BlocksLength(documents, k) ==
  IF k = 0 THEN 0
  ELSE BlocksLength(documents, k - 1) + Len(DocText(documents[k]))

(* the number of leading documents whose formatted blocks fit max_length *)
WholeBlocks(documents, max_length) ==
  CHOOSE k \in 0..Len(documents) :
    /\ BlocksLength(documents, k) <= max_length
    /\ \A j \in (k + 1)..Len(documents) :
         BlocksLength(documents, j) > max_length

(* the blocks the contract asks for: the whole blocks of the longest       *)
(* fitting prefix, then the next block cut to the space left and marked,   *)
(* when there is a next block and more than 100 characters are left        *)
ExpectedBlocks(documents, max_length) ==
  LET k == WholeBlocks(documents, max_length)
      left == max_length - BlocksLength(documents, k)
      whole == [i \in 1..k |-> DocText(documents[i])]
  IN IF k < Len(documents) /\ left > 100
     THEN Append(whole,
                 SubSeq(DocText(documents[k + 1]), 1, left) \o <<".", ".", ".">>)
     ELSE whole

(* C21: build_context returns the blocks of a prefix of the documents in   *)
(* rank order, joined by a blank line: whole blocks while their summed     *)
(* length stays within max_length, then the first block that does not fit  *)
(* cut to the space left plus "..." if and only if more than 100           *)
(* characters are left, and nothing after it; no documents give ""         *)
C21_EmitsPrefixThenTruncates ==
  rag.op = "build_context" =>
    /\ rag.context = Join(ExpectedBlocks(rag.documents, rag.max_length),
                          <<"\n", "\n">>)
    /\ rag.documents = <<>> => rag.context = <<>>

(* a first block too long is cut and marked, and a later block that would  *)
(* have fitted on its own is left out                                      *)
C21_Witness ==
  /\ rag.op = "build_context"
  /\ Len(rag.documents) = 3
  /\ WholeBlocks(rag.documents, rag.max_length) = 1
  /\ Len(ExpectedBlocks(rag.documents, rag.max_length)) = 2
  /\ BlocksLength(rag.documents, 1) + Len(DocText(rag.documents[3]))
       <= rag.max_length
  /\ rag.context # <<>>

-----------------------------------------------------------------------------
(* retrieve_relevant_documents: what is returned *)

IsRetrieval == rag.op = "retrieve_relevant_documents" /\ rag.error = None

(* the rows of the scope of the call that have a similarity to the query   *)
(* at or above the floor of the call                                       *)
Qualifying ==
  {d \in docs : /\ d.dapp = rag.dapp
                /\ d.embedding # <<>>
                /\ ~SimBelow(similarity(d.embedding, encode(rag.query)),
                             rag.thr)}

ReturnedIds == {rag.documents[i].id : i \in 1..Len(rag.documents)}

(* similarity a >= similarity b, both as fractions with positive           *)
(* denominators                                                            *)
SimAtLeast(a, b) == a[1] * b[2] >= b[1] * a[2]

(* C22: a retrieval returns at most top_k documents, all rows of the given *)
(* dapp, each with a similarity at or above the floor, in non-increasing   *)
(* order of similarity; it returns min(top_k, m) of them, m being the      *)
(* number of qualifying rows of the dapp, and no qualifying row left out   *)
(* is more similar than a returned one                                     *)
C22_ReturnsTopQualifying ==
  IsRetrieval =>
    /\ Len(rag.documents) <= rag.top_k
    /\ \A i \in 1..Len(rag.documents) :
         /\ \E d \in docs : d.id = rag.documents[i].id /\ d.dapp = rag.dapp
         /\ ~SimBelow(rag.documents[i].similarity, rag.thr)
    /\ \A i, j \in 1..Len(rag.documents) :
         i < j => SimAtLeast(rag.documents[i].similarity,
                             rag.documents[j].similarity)
    /\ \A i, j \in 1..Len(rag.documents) :
         i # j => rag.documents[i].id # rag.documents[j].id
    /\ Len(rag.documents) = Min2(rag.top_k, Cardinality(Qualifying))
    /\ \A d \in Qualifying :
         d.id \notin ReturnedIds =>
           \A i \in 1..Len(rag.documents) :
             SimAtLeast(rag.documents[i].similarity,
                        similarity(d.embedding, encode(rag.query)))

(* a call with top_k = 1 on a table with more than 2 * top_k rows of the   *)
(* dapp, several of them qualifying and one of them under the floor        *)
C22_Witness ==
  /\ IsRetrieval
  /\ rag.top_k = 1
  /\ Len(rag.documents) = 1
  /\ Cardinality(Qualifying) >= 3
  /\ Cardinality({d \in docs : d.dapp = rag.dapp}) > Cardinality(Qualifying) + 1
  /\ \E d \in docs : d.dapp # rag.dapp

-----------------------------------------------------------------------------
(* classify: type, confidence *)

Classified == cls.op = "classify"

(* some keyword of the list occurs in the lowercased query of the call *)
HasKeyword(keywords) ==
  \E i \in 1..Len(keywords) : Contains(lower(cls.query), keywords[i])

(* C23: the type is earnings if an earnings keyword occurs in the          *)
(* lowercased query, else risk if a risk keyword occurs, else technical if *)
(* a technical keyword occurs, else general; a query with an earnings and  *)
(* a risk keyword is earnings; requires_apr is true exactly for earnings   *)
C23_TypeByPriority ==
  Classified =>
    /\ cls.result.query_type =
         (IF HasKeyword(EARNINGS_KEYWORDS) THEN "earnings"
          ELSE IF HasKeyword(RISK_KEYWORDS) THEN "risk"
          ELSE IF HasKeyword(TECHNICAL_KEYWORDS) THEN "technical"
          ELSE "general")
    /\ (HasKeyword(EARNINGS_KEYWORDS) /\ HasKeyword(RISK_KEYWORDS)) =>
         cls.result.query_type = "earnings"
    /\ cls.result.requires_apr <=> (cls.result.query_type = "earnings")

(* a classified query that holds an earnings and a risk keyword *)
C23_Witness ==
  /\ Classified
  /\ HasKeyword(EARNINGS_KEYWORDS)
  /\ HasKeyword(RISK_KEYWORDS)
  /\ cls.result.query_type = "earnings"
  /\ cls.result.requires_apr

(* C24: for every query and every pool id of the request classify returns  *)
(* a result, of one of the four types, with a confidence from 0 to 1        *)
C24_ConfidenceInUnitInterval ==
  Classified =>
    /\ cls.result.query_type \in {"earnings", "risk", "technical", "general"}
    /\ ~FLess(cls.result.confidence, <<0, 0>>)
    /\ ~FLess(<<2^30, 0>>, cls.result.confidence)

(* four keywords or more, a pool and an amount: the sum before the clamp   *)
(* is above 1                                                              *)
C24_Witness ==
  /\ Classified
  /\ cls.result.query_type = "earnings"
  /\ Matches(lower(cls.query), EARNINGS_KEYWORDS) >= 4
  /\ ExtractPoolId(lower(cls.query)) # NoneText
  /\ cls.result.amount # NoneAmount /\ cls.result.amount[1] > 0
  /\ cls.result.confidence = <<2^30, 0>>

(* the doubles written 0.5, 0.6, ... 1.0, by their number of tenths *)
TenthsLiteral(t) ==
  CASE t = 5 -> <<536870912, 0>>
    [] t = 6 -> <<644245094, 429496704>>
    [] t = 7 -> <<751619276, 858993408>>
    [] t = 8 -> <<858993459, 214748416>>
    [] t = 9 -> <<966367641, 644245120>>
    [] t = 10 -> <<1073741824, 0>>

(* a and b are a few float roundings apart at most (2^-50) *)
Near(a, b) ==
  LET hi == IF FLess(a, b) THEN b ELSE a
      lo == IF FLess(a, b) THEN a ELSE b
      gap == IF hi[2] >= lo[2] THEN <<hi[1] - lo[1], hi[2] - lo[2]>>
             ELSE <<hi[1] - lo[1] - 1, hi[2] + 2^30 - lo[2]>>
  IN gap[1] = 0 /\ gap[2] <= 1024

(* the keywords of the winning type found in the query; 0 for general *)
WinningMatches ==
  CASE cls.result.query_type = "earnings" ->
         Cardinality({i \in 1..Len(EARNINGS_KEYWORDS) :
                        Contains(lower(cls.query), EARNINGS_KEYWORDS[i])})
    [] cls.result.query_type = "risk" ->
         Cardinality({i \in 1..Len(RISK_KEYWORDS) :
                        Contains(lower(cls.query), RISK_KEYWORDS[i])})
    [] cls.result.query_type = "technical" ->
         Cardinality({i \in 1..Len(TECHNICAL_KEYWORDS) :
                        Contains(lower(cls.query), TECHNICAL_KEYWORDS[i])})
    [] OTHER -> 0

(* the result carries a pool id that was extracted from the query: none    *)
(* was given with the request                                              *)
CarriesExtractedPool ==
  cls.result.pool_id # NoneText /\ cls.pool_id \in {NoneText, <<>>}

CarriesAmount == cls.result.amount # NoneAmount

ExampleQuery ==
  <<"H", "o", "w", " ", "m", "u", "c", "h", " ", "c", "a", "n", " ", "I",
    " ", "e", "a", "r", "n", " ", "o", "n", " ", "1", "0", "0", "0", " ",
    "U", "S", "D", "C", " ", "i", "n", " ", "a", "l", "l", "e", "z", "-",
    "u", "s", "d", "c", "?">>

(* C25: the confidence is min(1, 0.5 + min(0.1 k, 0.4) + p + a), up to     *)
(* float rounding, with k the keywords of the winning type found, p = 0.1  *)
(* exactly when the result carries an extracted pool id and a = 0.1        *)
(* exactly when it carries an amount, 0 included; the example query gets   *)
(* earnings, allez-usdc, 1000, USDC and a confidence of 0.9 or more        *)
C25_ConfidenceFormula ==
  Classified =>
    /\ Near(cls.result.confidence,
            TenthsLiteral(Min2(10, 5 + Min2(WinningMatches, 4)
                                     + (IF CarriesExtractedPool THEN 1 ELSE 0)
                                     + (IF CarriesAmount THEN 1 ELSE 0))))
    /\ (cls.query = ExampleQuery /\ cls.pool_id = NoneText) =>
         /\ cls.result.query_type = "earnings"
         /\ cls.result.pool_id = <<"a", "l", "l", "e", "z", "-", "u", "s", "d", "c">>
         /\ cls.result.amount = <<1000, 0>>
         /\ cls.result.currency = <<"U", "S", "D", "C">>
         /\ ~FLess(cls.result.confidence, TenthsLiteral(9))

-----------------------------------------------------------------------------
(* the key of the exact cache *)

(* lowercase(trim(query)) *)
Normalised(query) == lower(Strip(query))

(* the texts with the normal form of q2 whose record is in the store and   *)
(* has not expired                                                         *)
LiveWrites(q2) ==
  {q1 \in AllTexts :
     /\ Normalised(q1) = Normalised(q2)
     /\ redis[CacheKey(q1)] # NoVal
     /\ now < redis[CacheKey(q1)].expires_at}

(* C26: a get of q2 from the exact cache returns the payload written by a  *)
(* set of q1 within the TTL whenever q1 and q2 are equal after trimming    *)
(* the surrounding whitespace and lowercasing, and returns nothing when no *)
(* text of the same normal form was written                                *)
C26_KeyNormalised ==
  [][(ret' # ret /\ ret'.op = "get_from_redis") =>
       IF LiveWrites(ret'.query) # {}
       THEN /\ ret'.hit
            /\ \E q1 \in LiveWrites(ret'.query) :
                 ret'.payload = json_loads(redis[CacheKey(q1)].value)
       ELSE ~ret'.hit]_vars

-----------------------------------------------------------------------------
(* usage counters and timestamps of the entries *)

-----------------------------------------------------------------------------
(* the chunks that ingestion stores *)

(* C28: every chunk that chunk_content produced and the indexing loop      *)
(* passed to add_document has a content that is not empty once its         *)
(* whitespace is stripped                                                  *)
C28_IndexedContentNotEmpty ==
  \A d \in docs : Len(Strip(d.content)) > 0

-----------------------------------------------------------------------------
(* cache statistics *)

IsStats == ret.op = "get_cache_stats"

(* the entries of the scope the statistics are asked for *)
ScopeEntries == {e \in cache : e.dapp = ret.dapp}

(* C29: the statistics of a scope count the entries of that scope only;    *)
(* the most used list holds the entries of the scope with the highest      *)
(* use_count, at most N of them, in non-increasing order of use_count;     *)
(* oldest <= newest; with no entry the total is 0, the list is empty and   *)
(* the timestamps are unset                                                *)
C29_StatsOfScope ==
  IsStats =>
    /\ ret.stats.total_queries = Cardinality(ScopeEntries)
    /\ Len(ret.stats.popular_queries) = Min2(5, Cardinality(ScopeEntries))
    /\ \A i \in 1..Len(ret.stats.popular_queries) :
         \E e \in ScopeEntries :
           /\ e.query_text = ret.stats.popular_queries[i].query
           /\ e.use_count = ret.stats.popular_queries[i].use_count
    /\ \A i, j \in 1..Len(ret.stats.popular_queries) :
         i < j => ret.stats.popular_queries[i].use_count
                    >= ret.stats.popular_queries[j].use_count
    /\ ScopeEntries = {} => ret.stats = NoStats
    /\ ScopeEntries # {} =>
         /\ ret.stats.oldest_entry # NoneInt
         /\ ret.stats.oldest_entry <= ret.stats.newest_entry

-----------------------------------------------------------------------------
(* access to POST /ask *)

(* C30: access is decided before any step of the pipeline: a request       *)
(* without an API key ends with 401, a request with a key that is not      *)
(* configured ends with 403, neither is classified, looked up, answered or *)
(* stored, and the step that receives it changes nothing in the caches;    *)
(* only a request with a configured key has pipeline steps                 *)
C30_AccessBeforePipeline ==
  [][\A r \in 1..Len(reqs') :
       /\ reqs'[r].api_key \notin ApiKeys =>
            /\ reqs'[r].pc = "done"
            /\ reqs'[r].status =
                 (IF reqs'[r].api_key \in {None, ""} THEN 401 ELSE 403)
            /\ reqs'[r].steps = <<>>
            /\ reqs'[r].exact = "none"
            /\ reqs'[r].answer = ""
            /\ r > Len(reqs) =>
                 cache' = cache /\ redis' = redis /\ nextId' = nextId
       /\ reqs'[r].steps # <<>> => reqs'[r].api_key \in ApiKeys]_vars

(* a request without a key, one with an unknown key, and one with the      *)
(* configured key that went into the pipeline, while the cache holds an    *)
(* entry                                                                   *)
C30_Witness ==
  /\ cache # {}
  /\ \E r \in 1..Len(reqs) : reqs[r].api_key = None /\ reqs[r].status = 401
  /\ \E r \in 1..Len(reqs) :
       reqs[r].api_key = "invalid-key" /\ reqs[r].status = 403
  /\ \E r \in 1..Len(reqs) :
       reqs[r].api_key \in ApiKeys /\ reqs[r].steps # <<>>

-----------------------------------------------------------------------------
(* staleness of served answers *)

(* the lookups ask_question makes: the exact one, and the semantic one     *)
(* with max_age_seconds = cache_ttl_seconds                                *)
IsServingLookup ==
  \/ ret.op = "get_from_redis"
  \/ ret.op = "get_cached_response" /\ ret.max_age = CacheTtlSeconds

(* C32: no cache tier serves a response that was generated more than       *)
(* cache_ttl_seconds before the lookup: whenever the exact lookup or the   *)
(* semantic lookup with the configured staleness floor returns a payload,  *)
(* the entry the payload was stored with was created at most               *)
(* cache_ttl_seconds earlier                                               *)
C32_NoStaleAnswer ==
  (IsServingLookup /\ ret.hit) =>
    \A e \in cache :
      e.response_json = ret.payload => ret.at - e.created_at <= CacheTtlSeconds

-----------------------------------------------------------------------------
(* repeated requests *)

(* a request that passed the api-key dependency and names no other         *)
(* protocol                                                                *)
EntersPipeline(req) ==
  /\ req.api_key \in ApiKeys
  /\ MentionedProtocol(req.query, req.dapp) = <<>>

(* C33: when a request is handled after an earlier request with the same   *)
(* query text and scope has completed (no time passes and nothing is       *)
(* invalidated in between), both are answered, generation ran for the      *)
(* first and not again for the second, and the second carries the answer   *)
(* of the first                                                            *)
C33_SecondServedFromCache ==
  [][\A r1, r2 \in 1..Len(reqs) :
       (/\ r1 < r2
        /\ reqs[r1].query = reqs[r2].query
        /\ reqs[r1].dapp = reqs[r2].dapp
        /\ EntersPipeline(reqs[r1])
        /\ EntersPipeline(reqs[r2])
        /\ reqs[r1].pc = "done"
        /\ reqs[r2].pc = "handler"
        /\ reqs'[r2].pc = "done")
       => /\ reqs[r1].status = 200
          /\ reqs'[r2].status = 200
          /\ reqs'[r2].answer = reqs[r1].answer
          /\ \E i \in 1..Len(reqs[r1].steps) : reqs[r1].steps[i] = "generate"
          /\ \A i \in 1..Len(reqs'[r2].steps) :
               reqs'[r2].steps[i] # "generate"]_vars

-----------------------------------------------------------------------------
(* invalidation and the two tiers *)

(* C34: once invalidate_cache has deleted an entry, no tier answers with   *)
(* that entry's payload any more: whenever the exact lookup or the         *)
(* semantic lookup returns a payload, the entry the payload was stored     *)
(* with is still in the table                                              *)
C34_DeletedEntryNotServed ==
  (IsServingLookup /\ ret.hit) =>
    \E e \in cache : e.response_json = ret.payload

-----------------------------------------------------------------------------
(* the figures of a served response *)

(* C35: a response a cache tier serves carries the figures of the request  *)
(* it is served to.  The lookups take the query text and the scope only,   *)
(* so the payload they return is served to every request with that text:   *)
(* whenever it carries assumptions, they are the pool, amount and currency *)
(* resolved for each such request                                          *)
C35_FiguresOfThisRequest ==
  (IsServingLookup /\ ret.hit /\ ret.payload.assumptions # NoAssumptions) =>
    \A f \in FigureRequests :
      ret.payload.assumptions = ResolvedFigures(ret.query, f[1], f[2], f[3])

-----------------------------------------------------------------------------
(* usage counters under concurrent lookups *)

(* the calls that returned the payload of entry e *)
HitsServedFrom(e) ==
  {r \in 1..Len(reqs) : reqs[r].pc = "done" /\ reqs[r].hit
                        /\ reqs[r].row.id = e.id}

(* C36: in every interleaving of the lookups of concurrent requests, the   *)
(* use_count of an entry is 1 plus the number of lookups that returned its *)
(* payload since it was stored: no increment is lost                       *)
C36_NoLostIncrement ==
  \A e \in cache : e.use_count = 1 + Cardinality(HitsServedFrom(e))

(* two lookups selected the same entry before either updated it, and both  *)
(* have returned                                                           *)
C36_Witness ==
  \E e \in cache :
    \E r1, r2 \in HitsServedFrom(e) :
      /\ r1 # r2
      /\ reqs[r1].row.use_count = 1
      /\ reqs[r2].row.use_count = 1
      /\ e.use_count = 3

-----------------------------------------------------------------------------
(* lookups that return nothing *)

(* C37: a semantic lookup that returns absent changes no cache state: the  *)
(* step leaves every row of the table (its use_count, last_used_at and     *)
(* updated_at included), the set of rows and the Redis store as they were  *)
C37_MissChangesNothing ==
  [][(ret'.op = "get_cached_response" /\ ~ret'.hit)
       => (cache' = cache /\ redis' = redis /\ nextId' = nextId)]_vars

(* a lookup returned absent on a table that holds, in the scope of the     *)
(* lookup, an entry near enough but too old, next to an entry of another   *)
(* scope                                                                   *)
C37_Witness ==
  /\ IsLookup
  /\ ~ret.hit
  /\ Truthy(ret.max_age)
  /\ \E e \in cache : e.dapp # ret.dapp
  /\ \E e \in cache :
       /\ e.dapp = ret.dapp
       /\ ~SimBelow(similarity(e.query_embedding, encode(ret.query)), ret.thr)
       /\ e.updated_at < ret.at - ret.max_age

-----------------------------------------------------------------------------
(* session ids *)

(* C38: every response carries the session id of the request it answers:   *)
(* the one the request supplied, or a fresh one when it supplied none;     *)
(* this holds for refusals too                                             *)
C38_SessionOfThisRequest ==
  \A r \in 1..Len(reqs) :
    (reqs[r].pc = "done" /\ reqs[r].status = 200) =>
      reqs[r].session_id =
        (IF reqs[r].session_in # None THEN reqs[r].session_in ELSE "uuid4")

-----------------------------------------------------------------------------
(* the early refusal *)

(* the query names a protocol of the list that is not the request's dapp *)
AsksAboutOtherProtocol(req) ==
  \E i \in 1..Len(other_protocols) :
    /\ Contains(lower(req.query), other_protocols[i])
    /\ other_protocols[i] # lower(req.dapp)

(* C39: an authorised request whose query names another protocol is        *)
(* answered with the refusal and nothing else happens for it: it never     *)
(* has a pipeline step (classification, lookup, retrieval, generation,     *)
(* store), when it ends it ends with the refusal, and the step that        *)
(* answers it leaves both cache tiers as they were, so the refusal is      *)
(* never written to a cache                                                *)
C39_RefusalTouchesNothing ==
  [][\A r \in 1..Len(reqs') :
       (reqs'[r].api_key \in ApiKeys /\ AsksAboutOtherProtocol(reqs'[r])) =>
         /\ reqs'[r].steps = <<>>
         /\ reqs'[r].exact = "none"
         /\ reqs'[r].pc = "done" =>
              reqs'[r].status = 200 /\ reqs'[r].answer = "refusal"
         /\ (r <= Len(reqs) /\ reqs[r].pc # "done" /\ reqs'[r].pc = "done") =>
              /\ cache' = cache
              /\ redis' = redis
              /\ nextId' = nextId
              /\ ret' = ret
              /\ cls' = cls]_vars

(* a request for kamino that names aave was refused while the cache holds  *)
(* an entry, and a request for aave that names aave went into the pipeline *)
C39_Witness ==
  /\ cache # {}
  /\ \E r \in 1..Len(reqs) :
       /\ AsksAboutOtherProtocol(reqs[r])
       /\ reqs[r].pc = "done"
       /\ reqs[r].answer = "refusal"
  /\ \E r \in 1..Len(reqs) :
       /\ Contains(lower(reqs[r].query), lower(reqs[r].dapp))
       /\ ~AsksAboutOtherProtocol(reqs[r])
       /\ reqs[r].steps # <<>>

-----------------------------------------------------------------------------
(* the order of the two writes of a store *)

(* C40: save_response writes the Redis record only after the row was       *)
(* inserted: a store whose embedding or insert fails ends in an error and  *)
(* leaves the table and Redis as they were, and every Redis record is the  *)
(* payload of a row that was inserted for its query                        *)
C40_RedisOnlyAfterInsert ==
  [][/\ (ret'.op = "save_response" /\ ret'.error # None) =>
          (redis' = redis /\ cache' = cache)
     /\ \A k \in DOMAIN redis' :
          redis'[k] # NoVal =>
            \E e \in cache' :
              /\ CacheKey(e.query_text) = k
              /\ json_dumps(e.response_json) = redis'[k].value]_vars

(* the insert of a store failed with Redis reachable, no record exists for *)
(* its query, and the record of an earlier successful store is there       *)
C40_Witness ==
  /\ ret.op = "save_response"
  /\ ret.fault = "insert"
  /\ ret.error # None
  /\ redis[CacheKey(ret.query)] = NoVal
  /\ \E k \in DOMAIN redis : redis[k] # NoVal

====
